---- MODULE Spec2Model ----
(***************************************************************************)
(* Model of the SQL schema-qualification rewriter of add_schema_bentivi.py *)
(* (extract_table_names_from_sql, add_schema_to_sql).                      *)
(*                                                                         *)
(* A SQL text is a sequence of pieces.  A piece is a string that the       *)
(* regular expressions of the source treat as a unit: a run of word        *)
(* characters ("FROM", "nota", "ORIG"), one whitespace character (" ",     *)
(* "\n"), or a punctuation token (".", ",", "--", "/*", "*/", "=").  Two   *)
(* adjacent word pieces spell one longer word ("NOTA","ORIG" is the        *)
(* identifier NOTAORIG), so \b holds exactly between a word piece and a    *)
(* non-word piece (or the text's end).                                     *)
(***************************************************************************)
EXTENDS Integers, Sequences, FiniteSets, TLC

VARIABLES
    sql_content,    \* the argument of the current call of add_schema_to_sql
    schema_name,    \* the schema argument
    tables,         \* sorted list of extracted table names (line 63)
    modified_sql,   \* the text being rewritten (line 72)
    modifications,  \* counter of line 73
    ti,             \* index of the current table in the loop of line 75
    pi,             \* index of the current pattern in the loop of line 91
    pc,             \* "call", "loop", "done" or "raised"
    calls,          \* how many times add_schema_to_sql has been called
    fs,             \* the file system: the content found at each path
    fs0,            \* the file system when the tool started
    tool,           \* the script that runs on the file system
    queue,          \* the files the loop of the script has not reached yet
    task,           \* the calls in progress: position, file, locals, result
    environ,        \* os.environ, as os.getenv reads it
    config          \* what the configuration loader returned or raised

\* the locals of the text rewriters
qvars == <<sql_content, schema_name, tables, modified_sql, modifications,
           ti, pi, pc, calls>>

\* the files and the scripts that run on them
fvars == <<fs, fs0, tool, queue, task>>

\* the environment and the configuration loaded from it
cvars == <<environ, config>>

vars == <<qvars, fvars, cvars>>

----------------------------------------------------------------------------
(* Characters and words *)

\* Upper-case word pieces and their spelling as code points (str order).
Spell ==
    [w \in {"FROM", "JOIN", "INNER", "LEFT", "RIGHT", "UPDATE", "INSERT",
            "INTO", "DELETE", "SELECT", "WHERE", "SET", "ON", "BENTIVI",
            "NOTA", "OLDNOTA", "ORIG", "I", "P", "ID", "X", "CFO", "PEDIDO",
            "_", "1", "FULL", "N", "ESTOQUE", "TOPCTRL", "RECEBER", "CABREC",
            "NOTACRC", "CICLO", "CABTAB", "TRANSAC", "PROPRIED", "MUNICIPIO",
            "PESSOAL", "FUNCAOTOPER", "TIPOOPER", "PRODSERV", "GRUPO",
            "SUBGRUPO", "PRODUTO", "CONDICAO", "INDEXADOR", "INDVALOR",
            "CULTURA", "RECEITA", "NFENTRA", "DOCDESFAZ", "CABDESFAZ",
            "NEGOCIACAO"} |->
        CASE w = "FROM"        -> <<70, 82, 79, 77>>
          [] w = "JOIN"        -> <<74, 79, 73, 78>>
          [] w = "INNER"       -> <<73, 78, 78, 69, 82>>
          [] w = "LEFT"        -> <<76, 69, 70, 84>>
          [] w = "RIGHT"       -> <<82, 73, 71, 72, 84>>
          [] w = "UPDATE"      -> <<85, 80, 68, 65, 84, 69>>
          [] w = "INSERT"      -> <<73, 78, 83, 69, 82, 84>>
          [] w = "INTO"        -> <<73, 78, 84, 79>>
          [] w = "DELETE"      -> <<68, 69, 76, 69, 84, 69>>
          [] w = "SELECT"      -> <<83, 69, 76, 69, 67, 84>>
          [] w = "WHERE"       -> <<87, 72, 69, 82, 69>>
          [] w = "SET"         -> <<83, 69, 84>>
          [] w = "ON"          -> <<79, 78>>
          [] w = "BENTIVI"     -> <<66, 69, 78, 84, 73, 86, 73>>
          [] w = "NOTA"        -> <<78, 79, 84, 65>>
          [] w = "OLDNOTA"     -> <<79, 76, 68, 78, 79, 84, 65>>
          [] w = "ORIG"        -> <<79, 82, 73, 71>>
          [] w = "I"           -> <<73>>
          [] w = "P"           -> <<80>>
          [] w = "ID"          -> <<73, 68>>
          [] w = "X"           -> <<88>>
          [] w = "CFO"         -> <<67, 70, 79>>
          [] w = "PEDIDO"      -> <<80, 69, 68, 73, 68, 79>>
          [] w = "_"           -> <<95>>
          [] w = "1"           -> <<49>>
          [] w = "FULL"        -> <<70, 85, 76, 76>>
          [] w = "N"           -> <<78>>
          [] w = "ESTOQUE"     -> <<69, 83, 84, 79, 81, 85, 69>>
          [] w = "TOPCTRL"     -> <<84, 79, 80, 67, 84, 82, 76>>
          [] w = "RECEBER"     -> <<82, 69, 67, 69, 66, 69, 82>>
          [] w = "CABREC"      -> <<67, 65, 66, 82, 69, 67>>
          [] w = "NOTACRC"     -> <<78, 79, 84, 65, 67, 82, 67>>
          [] w = "CICLO"       -> <<67, 73, 67, 76, 79>>
          [] w = "CABTAB"      -> <<67, 65, 66, 84, 65, 66>>
          [] w = "TRANSAC"     -> <<84, 82, 65, 78, 83, 65, 67>>
          [] w = "PROPRIED"    -> <<80, 82, 79, 80, 82, 73, 69, 68>>
          [] w = "MUNICIPIO"   -> <<77, 85, 78, 73, 67, 73, 80, 73, 79>>
          [] w = "PESSOAL"     -> <<80, 69, 83, 83, 79, 65, 76>>
          [] w = "FUNCAOTOPER" -> <<70, 85, 78, 67, 65, 79, 84, 79, 80, 69, 82>>
          [] w = "TIPOOPER"    -> <<84, 73, 80, 79, 79, 80, 69, 82>>
          [] w = "PRODSERV"    -> <<80, 82, 79, 68, 83, 69, 82, 86>>
          [] w = "GRUPO"       -> <<71, 82, 85, 80, 79>>
          [] w = "SUBGRUPO"    -> <<83, 85, 66, 71, 82, 85, 80, 79>>
          [] w = "PRODUTO"     -> <<80, 82, 79, 68, 85, 84, 79>>
          [] w = "CONDICAO"    -> <<67, 79, 78, 68, 73, 67, 65, 79>>
          [] w = "INDEXADOR"   -> <<73, 78, 68, 69, 88, 65, 68, 79, 82>>
          [] w = "INDVALOR"    -> <<73, 78, 68, 86, 65, 76, 79, 82>>
          [] w = "CULTURA"     -> <<67, 85, 76, 84, 85, 82, 65>>
          [] w = "RECEITA"     -> <<82, 69, 67, 69, 73, 84, 65>>
          [] w = "NFENTRA"     -> <<78, 70, 69, 78, 84, 82, 65>>
          [] w = "DOCDESFAZ"   -> <<68, 79, 67, 68, 69, 83, 70, 65, 90>>
          [] w = "CABDESFAZ"   -> <<67, 65, 66, 68, 69, 83, 70, 65, 90>>
          [] w = "NEGOCIACAO"  -> <<78, 69, 71, 79, 67, 73, 65, 67, 65, 79>>]

\* Lower- or mixed-case word pieces and their str.upper().
LowerWords ==
    [w \in {"from", "join", "nota", "orig", "bentivi", "select", "Nota", "i",
            "pedido", "estoque", "topctrl", "receber", "cabrec", "notacrc",
            "transac", "condicao", "indexador", "receita", "cfo", "inner"} |->
        CASE w = "from"      -> "FROM"
          [] w = "join"      -> "JOIN"
          [] w = "nota"      -> "NOTA"
          [] w = "orig"      -> "ORIG"
          [] w = "bentivi"   -> "BENTIVI"
          [] w = "select"    -> "SELECT"
          [] w = "Nota"      -> "NOTA"
          [] w = "i"         -> "I"
          [] w = "pedido"    -> "PEDIDO"
          [] w = "estoque"   -> "ESTOQUE"
          [] w = "topctrl"   -> "TOPCTRL"
          [] w = "receber"   -> "RECEBER"
          [] w = "cabrec"    -> "CABREC"
          [] w = "notacrc"   -> "NOTACRC"
          [] w = "transac"   -> "TRANSAC"
          [] w = "condicao"  -> "CONDICAO"
          [] w = "indexador" -> "INDEXADOR"
          [] w = "receita"   -> "RECEITA"
          [] w = "cfo"       -> "CFO"
          [] w = "inner"     -> "INNER"]

\* \w+ : a piece made of word characters only
IsWord(c) == c \in DOMAIN Spell \/ c \in DOMAIN LowerWords

\* \s : a whitespace character
IsSpace(c) == c \in {" ", "\n", "\t"}

\* str.upper() of one piece
Upper(c) == IF c \in DOMAIN LowerWords THEN LowerWords[c] ELSE c

\* str.upper() of a text
UpperSeq(s) == [k \in 1..Len(s) |-> Upper(s[k])]

\* [A-Za-z_] : the piece may start an identifier (it does not start with a digit)
IsIdentStart(c) == IsWord(c) /\ Spell[Upper(c)][1] \notin 48..57

\* position i of text t holds a word character
WordAt(t, i) == i >= 1 /\ i <= Len(t) /\ IsWord(t[i])

\* \b between positions i-1 and i of t
Boundary(t, i) == WordAt(t, i - 1) # WordAt(t, i)

----------------------------------------------------------------------------
(* The regular-expression steps the source uses *)

RECURSIVE SkipSpace(_, _)
\* \s+ is greedy: the first position at or after i that holds no whitespace
SkipSpace(t, i) ==
    IF i <= Len(t) /\ IsSpace(t[i]) THEN SkipSpace(t, i + 1) ELSE i

RECURSIVE WordEnd(_, _)
\* [A-Za-z0-9_]* is greedy: the first position at or after i that holds no word character
WordEnd(t, i) ==
    IF i <= Len(t) /\ IsWord(t[i]) THEN WordEnd(t, i + 1) ELSE i

RECURSIVE KwEnd(_, _, _, _)
\* kw[k] \s+ kw[k+1] \s+ ... \s+ matched at i (re.IGNORECASE): the position
\* after the last \s+, or 0 when there is no match
KwEnd(t, i, kw, k) ==
    IF i > Len(t) \/ Upper(t[i]) # kw[k] THEN 0
    ELSE LET j == SkipSpace(t, i + 1) IN
         IF j = i + 1 THEN 0
         ELSE IF k = Len(kw) THEN j
         ELSE KwEnd(t, j, kw, k + 1)

\* \bKW\s+ matched at i: the position where the identifier must start, or 0
KwMatch(t, i, kw) == IF WordAt(t, i - 1) THEN 0 ELSE KwEnd(t, i, kw, 1)

\* \bKW\s+([A-Za-z_][A-Za-z0-9_]*)\b matched at i: <<start, end>> of group 1
\* (end exclusive), or <<0, 0>>
IdentMatch(t, i, kw) ==
    LET j == KwMatch(t, i, kw) IN
    IF j = 0 \/ j > Len(t) THEN <<0, 0>>
    ELSE IF ~IsIdentStart(t[j]) THEN <<0, 0>>
    ELSE <<j, WordEnd(t, j)>>

RECURSIVE FindAll(_, _, _)
\* re.findall(pattern, t, re.IGNORECASE): group 1 of every non-overlapping
\* match, scanning from i to the right
FindAll(t, i, kw) ==
    IF i > Len(t) THEN {}
    ELSE LET m == IdentMatch(t, i, kw) IN
         IF m[1] = 0 THEN FindAll(t, i + 1, kw)
         ELSE {SubSeq(t, m[1], m[2] - 1)} \cup FindAll(t, m[2], kw)

\* the table pattern written {table}\b\s* : it also takes the whitespace that follows
TableEnd_EatSpace(t, j, table) ==
    LET e == j + Len(table) IN
    IF e - 1 > Len(t) THEN 0
    ELSE IF UpperSeq(SubSeq(t, j, e - 1)) # UpperSeq(table) THEN 0
    ELSE IF WordAt(t, e) THEN 0
    ELSE SkipSpace(t, e)

\* the literal table (re.escape) matched case-insensitively at j, followed by \b:
\* the position after it, or 0
TableEnd(t, j, table) ==
    LET e == j + Len(table) IN
    IF e - 1 > Len(t) THEN 0
    ELSE IF UpperSeq(SubSeq(t, j, e - 1)) # UpperSeq(table) THEN 0
    ELSE IF WordAt(t, e) THEN 0
    ELSE e

\* \bKW\s+table\b matched at i: the position after the match, or 0
TableMatch(t, i, kw, table) ==
    LET j == KwMatch(t, i, kw) IN
    IF j = 0 THEN 0 ELSE TableEnd(t, j, table)

RECURSIVE ReSub(_, _, _, _, _)
\* re.sub(pattern, replacement, t, flags=re.IGNORECASE) from position i on:
\* every non-overlapping match, left to right, becomes the replacement
ReSub(t, i, kw, table, replacement) ==
    IF i > Len(t) THEN <<>>
    ELSE LET e == TableMatch(t, i, kw, table) IN
         IF e = 0 THEN <<t[i]>> \o ReSub(t, i + 1, kw, table, replacement)
         ELSE replacement \o ReSub(t, e, kw, table, replacement)

\* re.search(rf'{schema}\.{table}\b', t, re.IGNORECASE): no \b in front
HasSchema(t, schema, table) ==
    \E i \in 1..Len(t) :
        LET d == i + Len(schema) IN
        /\ d <= Len(t)
        /\ UpperSeq(SubSeq(t, i, d - 1)) = UpperSeq(schema)
        /\ t[d] = "."
        /\ TableEnd(t, d + 1, table) # 0

RECURSIVE LineEnd(_, _)
\* .*$ with re.MULTILINE: up to the next newline or the end of the text
LineEnd(t, i) ==
    IF i <= Len(t) /\ t[i] # "\n" THEN LineEnd(t, i + 1) ELSE i

RECURSIVE StripLineComments(_, _)
\* re.sub(r'--.*$', '', t, flags=re.MULTILINE)
StripLineComments(t, i) ==
    IF i > Len(t) THEN <<>>
    ELSE IF t[i] = "--" THEN StripLineComments(t, LineEnd(t, i + 1))
    ELSE <<t[i]>> \o StripLineComments(t, i + 1)

RECURSIVE BlockEnd(_, _)
\* .*?\*/ with re.DOTALL: the position of the first "*/" at or after i, or 0
BlockEnd(t, i) ==
    IF i > Len(t) THEN 0
    ELSE IF t[i] = "*/" THEN i
    ELSE BlockEnd(t, i + 1)

RECURSIVE StripBlockComments(_, _)
\* re.sub(r'/\*.*?\*/', '', t, flags=re.DOTALL)
StripBlockComments(t, i) ==
    IF i > Len(t) THEN <<>>
    ELSE LET c == IF t[i] = "/*" THEN BlockEnd(t, i + 1) ELSE 0 IN
         IF c = 0 THEN <<t[i]>> \o StripBlockComments(t, i + 1)
         ELSE StripBlockComments(t, c + 1)

\* lines 30-32
RemoveComments(t) == StripBlockComments(StripLineComments(t, 1), 1)

----------------------------------------------------------------------------
(* extract_table_names_from_sql and add_schema_to_sql *)

\* the keyword phrases of the patterns of lines 35-44 and 77-89, in order
patterns ==
    << <<"FROM">>, <<"JOIN">>, <<"INNER", "JOIN">>, <<"LEFT", "JOIN">>,
       <<"RIGHT", "JOIN">>, <<"UPDATE">>, <<"INSERT", "INTO">>,
       <<"DELETE", "FROM">> >>

\* the SQL keywords filtered at lines 51-54
ReservedWords ==
    {"SELECT", "WHERE", "ORDER", "GROUP", "HAVING", "UNION", "ALL",
     "DISTINCT", "TOP", "LIMIT", "OFFSET", "INTO", "VALUES"}

\* the filter without .upper(): match not in [...]
IsReserved_CaseSensitive(ident) == Len(ident) = 1 /\ ident[1] \in ReservedWords

\* match.upper() not in [...]: the identifier is one of the filtered keywords
IsReserved(ident) == Len(ident) = 1 /\ Upper(ident[1]) \in ReservedWords

\* the code points of an upper-case identifier
RECURSIVE Codes(_)
Codes(ident) ==
    IF ident = <<>> THEN <<>> ELSE Spell[Head(ident)] \o Codes(Tail(ident))

RECURSIVE CodesLess(_, _)
\* str < str
CodesLess(a, b) ==
    IF b = <<>> THEN FALSE
    ELSE IF a = <<>> THEN TRUE
    ELSE IF Head(a) # Head(b) THEN Head(a) < Head(b)
    ELSE CodesLess(Tail(a), Tail(b))

RECURSIVE SortedList(_)
\* sorted(list(S)) for a set of upper-case identifiers
SortedList(S) ==
    IF S = {} THEN <<>>
    ELSE LET m == CHOOSE x \in S :
                      \A y \in S \ {x} : CodesLess(Codes(x), Codes(y))
         IN <<m>> \o SortedList(S \ {m})

\* lines 46-55: the upper-cased matches of every pattern that are no filtered keyword
TableSet(sql_clean) ==
    { UpperSeq(m) :
        m \in { x \in UNION { FindAll(sql_clean, 1, patterns[k]) :
                                k \in 1..Len(patterns) } : ~IsReserved(x) } }

\* lines 28-57
extract_table_names_from_sql(sql) == SortedList(TableSet(RemoveComments(sql)))

RECURSIVE JoinWords(_)
\* the keyword phrase as the replacement string writes it: single blanks
JoinWords(kw) ==
    IF Len(kw) = 1 THEN kw ELSE <<Head(kw), " ">> \o JoinWords(Tail(kw))

\* the replacement string of lines 79-88: f'KW {schema_name}.{table}'
Replacement(kw, schema, table) ==
    JoinWords(kw) \o <<" ">> \o schema \o <<".">> \o table

\* re.sub parses its replacement string as a template before it searches:
\* a backslash followed by an ASCII letter that is no template escape (the
\* piece "\\d") is re.error "bad escape"
TemplateRaises(replacement) ==
    \E k \in 1..Len(replacement) : replacement[k] = "\\d"

\* the template with its escapes processed: backslash n (the piece "\\n") is
\* a newline
ExpandTemplate(replacement) ==
    [k \in 1..Len(replacement) |->
        IF replacement[k] = "\\n" THEN "\n" ELSE replacement[k]]

\* lines 93-94, one pattern for one table: re.sub is reached and raises
PatternRaises(sql, kw, schema, table) ==
    /\ ~HasSchema(sql, schema, table)
    /\ TemplateRaises(Replacement(kw, schema, table))

\* lines 91-97, one pattern for one table: the new value of modified_sql
\* (when re.sub does not raise)
ApplyPattern(sql, kw, schema, table) ==
    IF ~HasSchema(sql, schema, table)
    THEN ReSub(sql, 1, kw, table,
               ExpandTemplate(Replacement(kw, schema, table)))
    ELSE sql

RECURSIVE ApplyFrom(_, _, _, _, _)
\* the loops of lines 75-97 from table t, pattern p on
ApplyFrom(sql, tbls, schema, t, p) ==
    IF t > Len(tbls) THEN sql
    ELSE IF p > Len(patterns) THEN ApplyFrom(sql, tbls, schema, t + 1, 1)
    ELSE ApplyFrom(ApplyPattern(sql, patterns[p], schema, tbls[t]),
                   tbls, schema, t, p + 1)

\* lines 59-100: the returned text (when no re.sub raises)
add_schema_to_sql(sql, schema) ==
    ApplyFrom(sql, extract_table_names_from_sql(sql), schema, 1, 1)

----------------------------------------------------------------------------
(* The SQL texts the model is run on *)

\* how many pieces a generated text holds at most
MaxPieces == 11

\* how many times in a row the rewriter is run on its own output
MaxCalls == 2

\* clause keywords with the whitespace that follows them
ClauseKeywords ==
    { <<"FROM", " ">>, <<"from", "\n">>, <<"JOIN", " ">>,
      <<"INNER", " ", "JOIN", " ">>, <<"DELETE", " ", "FROM", " ">>,
      <<"UPDATE", " ">> }

\* what follows a clause keyword
References ==
    { <<"NOTA">>, <<"nota">>, <<"NOTA", "ORIG">>, <<"I", "NOTA">>,
      <<"BENTIVI", ".", "NOTA">>, <<"BENTIVI", ".", "NOTA", "ORIG">>,
      <<"SELECT">> }

Clauses == { k \o r : k \in ClauseKeywords, r \in References }

\* what stands before the first clause
Leads == { <<>>, <<"--", " ">>, <<"/*", " ">> }

\* what stands between two clauses, or after the last one: whitespace, the
\* start of a line comment, the end of a block comment, a table alias
Separators ==
    { <<" ">>, <<"\n">>, <<" ", "--", " ">>, <<" ", "*/", " ">>,
      <<" ", "NOTA", " ">> }

RECURSIVE ClauseTexts(_)
\* the texts of at most b pieces made of clauses with a separator between them
ClauseTexts(b) ==
    UNION { {c}
            \cup UNION { {c \o s}
                         \cup { c \o s \o t :
                                  t \in ClauseTexts(b - Len(c) - Len(s)) } :
                         s \in { x \in Separators : Len(c) + Len(x) <= b } } :
            c \in { x \in Clauses : Len(x) <= b } }

\* the concrete scenarios of the specification and one text for each of the
\* keyword phrases the generated texts leave out
Scenarios ==
    { <<"UPDATE", " ", "BENTIVI", ".", "CFO", " ", "SET", " ", "X", "=", "1">>,
      <<"DELETE", " ", "FROM", " ", "NOTA", " ", "WHERE", " ", "ID", "=", "1",
        " ", "--", " ", "FROM", " ", "OLDNOTA">>,
      <<"SELECT", " ", "*", " ", "FROM", " ", "PEDIDO", " ", "P", " ",
        "JOIN", " ", "I", "PEDIDO", " ", "I", " ", "ON", " ", "P", ".", "ID",
        " ", "=", " ", "I", ".", "PEDIDO", "_", "ID">>,
      <<"INSERT", " ", "INTO", " ", "NOTA", " ", "LEFT", " ", "JOIN", " ",
        "NOTA", " ", "RIGHT", " ", "JOIN", " ", "NOTA">>,
      <<"FROM", " ", "1", "NOTA", " ", "FROM", "NOTA", " ", "X", "FROM", " ",
        "NOTA", " ", "/*", " ", "JOIN", " ", "P">>,
      <<"join", "\t", "select", " ", "FROM", " ", "Nota", ",", "orig", " ",
        "JOIN", " ", "bentivi", ".", "nota">> }

Docs ==
    UNION { { l \o t : t \in ClauseTexts(MaxPieces - Len(l)) } : l \in Leads }
    \cup Scenarios

\* schema_name of main (line 130), the default of add_schema_to_sql (line 59)
Schemas == { <<"BENTIVI">> }

----------------------------------------------------------------------------
(* What the variables of the other scripts hold while a rewriter is modelled *)

\* no script runs on files
NoFiles ==
    /\ fs = <<>>
    /\ fs0 = <<>>
    /\ tool = "none"
    /\ queue = <<>>
    /\ task = <<>>

\* no configuration is loaded
NoEnviron ==
    /\ environ = <<>>
    /\ config = "none"

\* no text rewriter is called on its own
NoRewriter ==
    /\ sql_content = <<>>
    /\ schema_name = <<>>
    /\ tables = <<>>
    /\ modified_sql = <<>>
    /\ modifications = 0
    /\ ti = 1
    /\ pi = 1
    /\ pc = "none"
    /\ calls = 0

----------------------------------------------------------------------------
(* The state machine: add_schema_to_sql, one pattern of one table per step *)

Init ==
    /\ sql_content \in Docs
    /\ schema_name \in Schemas
    /\ tables = <<>>
    /\ modified_sql = <<>>
    /\ modifications = 0
    /\ ti = 1
    /\ pi = 1
    /\ pc = "call"
    /\ calls = 0
    /\ NoFiles
    /\ NoEnviron

\* lines 59-73: the call, up to the loops
Call ==
    /\ pc = "call"
    /\ tables' = extract_table_names_from_sql(sql_content)
    /\ modified_sql' = sql_content
    /\ modifications' = 0
    /\ ti' = 1
    /\ pi' = 1
    /\ pc' = IF tables' = <<>> THEN "done" ELSE "loop"
    /\ calls' = calls + 1
    /\ UNCHANGED <<sql_content, schema_name, fvars, cvars>>

\* lines 91-97: one pattern of the current table; an exception of re.sub
\* leaves add_schema_to_sql
Step ==
    /\ pc = "loop"
    /\ IF PatternRaises(modified_sql, patterns[pi], schema_name, tables[ti])
       THEN /\ pc' = "raised"
            /\ UNCHANGED <<modified_sql, modifications, ti, pi>>
       ELSE /\ LET new_sql == ApplyPattern(modified_sql, patterns[pi],
                                           schema_name, tables[ti])
               IN /\ modified_sql' = new_sql
                  /\ modifications' =
                        IF new_sql # modified_sql THEN modifications + 1
                        ELSE modifications
            /\ ti' = IF pi = Len(patterns) THEN ti + 1 ELSE ti
            /\ pi' = IF pi = Len(patterns) THEN 1 ELSE pi + 1
            /\ pc' = IF pi = Len(patterns) /\ ti = Len(tables)
                     THEN "done" ELSE "loop"
    /\ UNCHANGED <<sql_content, schema_name, tables, calls, fvars, cvars>>

\* process_sql_file run again on the file it rewrote: the text returned by the
\* last call is the argument of the next one
Again ==
    /\ pc = "done"
    /\ calls < MaxCalls
    /\ sql_content' = modified_sql
    /\ pc' = "call"
    /\ UNCHANGED <<schema_name, tables, modified_sql, modifications, ti, pi,
                   calls, fvars, cvars>>

Next == Call \/ Step \/ Again

Spec == Init /\ [][Next]_vars

----------------------------------------------------------------------------
(* Vocabulary of the claims *)

\* a call of add_schema_to_sql has returned: sql_content is its argument and
\* modified_sql the text it returned
Returned == pc = "done"

\* the positions of t that directly follow a clause keyword and its whitespace
RefStarts(t) ==
    { KwMatch(t, i, patterns[k]) : i \in 1..Len(t), k \in 1..Len(patterns) }
    \ {0}

\* an identifier starts at position j of t
IdentAt(t, j) == j >= 1 /\ j <= Len(t) /\ IsIdentStart(t[j])

\* the identifier that starts at position j of t
IdentOf(t, j) == SubSeq(t, j, WordEnd(t, j) - 1)

\* the schema name and a dot stand at position j of t (case-insensitively)
SchemaDotAt(t, j, schema) ==
    /\ j >= 1
    /\ j + Len(schema) <= Len(t)
    /\ UpperSeq(SubSeq(t, j, j + Len(schema) - 1)) = UpperSeq(schema)
    /\ t[j + Len(schema)] = "."

\* a reference <schema>.<table> stands at position j of t
QualifiedAt(t, j, schema) ==
    SchemaDotAt(t, j, schema) /\ IdentAt(t, j + Len(schema) + 1)

\* the words the claims call reserved
ClaimReserved ==
    {"SELECT", "WHERE", "ORDER", "GROUP", "HAVING", "UNION", "ALL",
     "DISTINCT", "TOP", "LIMIT", "OFFSET", "INTO", "VALUES"}

\* the identifier at position j of t is one reserved word
ReservedAt(t, j) ==
    IdentAt(t, j) /\ WordEnd(t, j) = j + 1 /\ Upper(t[j]) \in ClaimReserved

\* a bare (not dotted), non-reserved identifier stands at position j of t
BareAt(t, j) ==
    /\ IdentAt(t, j)
    /\ ~ReservedAt(t, j)
    /\ LET e == WordEnd(t, j) IN ~(e <= Len(t) /\ t[e] = ".")

RECURSIVE IsSubseq(_, _)
\* a is b with some elements left out
IsSubseq(a, b) ==
    IF a = <<>> THEN TRUE
    ELSE IF b = <<>> THEN FALSE
    ELSE IF Head(a) = Head(b) THEN IsSubseq(Tail(a), Tail(b))
    ELSE IsSubseq(a, Tail(b))

----------------------------------------------------------------------------
(* C1 *)

\* C1: add_schema_to_sql is idempotent: the second of two calls in a row,
\* whose argument is the text the first one returned, returns its argument.
C1_Idempotent ==
    (Returned /\ calls = 2) => modified_sql = sql_content

----------------------------------------------------------------------------
(* C2 *)

RECURSIVE QualifiedRefs(_, _, _)
\* the already-qualified references of t from position i on, in order: for
\* each clause keyword followed by <schema>.<table>, the text from the
\* keyword to the end of the table name
QualifiedRefs(t, i, schema) ==
    IF i > Len(t) THEN <<>>
    ELSE LET js == { j \in { KwMatch(t, i, patterns[k]) :
                               k \in 1..Len(patterns) } :
                       j # 0 /\ QualifiedAt(t, j, schema) }
         IN IF js = {} THEN QualifiedRefs(t, i + 1, schema)
            ELSE LET j == CHOOSE x \in js : TRUE
                     e == WordEnd(t, j + Len(schema) + 1)
                 IN <<SubSeq(t, i, e - 1)>> \o QualifiedRefs(t, i + 1, schema)

\* C2: add_schema_to_sql never double-qualifies: every reference that is
\* already <schema>.<table> after a clause keyword in the argument stands
\* byte-identical, and in the same order, in the returned text.
C2_NoDoubleQualification ==
    Returned =>
        IsSubseq(QualifiedRefs(sql_content, 1, schema_name),
                 QualifiedRefs(modified_sql, 1, schema_name))

----------------------------------------------------------------------------
(* C3 *)

RECURSIVE Ascending(_, _)
\* the members of the set S of positions, from n on, in ascending order
Ascending(S, n) ==
    IF S = {} THEN <<>>
    ELSE IF n \in S THEN <<n>> \o Ascending(S \ {n}, n + 1)
    ELSE Ascending(S, n + 1)

\* the positions that directly follow a clause keyword, left to right
RefList(t) == Ascending(RefStarts(t), 1)

\* C3: every bare, non-reserved identifier T directly after a clause keyword
\* becomes <schema>.T, at every occurrence: outside its comments the returned
\* text holds no bare, non-reserved identifier directly after a clause keyword.
C3_EveryReferenceQualified ==
    Returned =>
        LET dst == RemoveComments(modified_sql)
        IN \A j \in RefStarts(dst) : ~BareAt(dst, j)

----------------------------------------------------------------------------
(* C4 *)

RECURSIVE LineComments(_, _)
\* the single-line comments of t from position i on, each from its "--" to
\* the end of its line
LineComments(t, i) ==
    IF i > Len(t) THEN <<>>
    ELSE IF t[i] = "--"
         THEN <<SubSeq(t, i, LineEnd(t, i + 1) - 1)>>
              \o LineComments(t, LineEnd(t, i + 1))
    ELSE LineComments(t, i + 1)

RECURSIVE BlockComments(_, _)
\* the block comments of t from position i on, each from "/*" to "*/"
BlockComments(t, i) ==
    IF i > Len(t) THEN <<>>
    ELSE LET c == IF t[i] = "/*" THEN BlockEnd(t, i + 1) ELSE 0 IN
         IF c = 0 THEN BlockComments(t, i + 1)
         ELSE <<SubSeq(t, i, c)>> \o BlockComments(t, c + 1)

\* the comments of t, as extract_table_names_from_sql delimits them
Comments(t) ==
    <<LineComments(t, 1), BlockComments(StripLineComments(t, 1), 1)>>

\* C4: comments are not rewritten: the returned text holds the same
\* comments, with the same text, as the argument.
C4_CommentsUntouched ==
    Returned => Comments(modified_sql) = Comments(sql_content)

----------------------------------------------------------------------------
(* C5 *)

RECURSIVE OnlyInserted(_, _, _, _, _)
\* out from position o on is src from position i on with <schema>. inserted
\* in front of some identifiers and nothing else changed
OnlyInserted(src, i, out, o, schema) ==
    IF o > Len(out) THEN i > Len(src)
    ELSE \/ /\ i <= Len(src)
            /\ src[i] = out[o]
            /\ OnlyInserted(src, i + 1, out, o + 1, schema)
         \/ /\ o + Len(schema) <= Len(out)
            /\ SubSeq(out, o, o + Len(schema) - 1) = schema
            /\ out[o + Len(schema)] = "."
            /\ IdentAt(out, o + Len(schema) + 1)
            /\ OnlyInserted(src, i, out, o + Len(schema) + 1, schema)

\* C5: the returned text is the argument with <schema>. inserted directly
\* before the qualified identifiers: keyword casing, whitespace layout and
\* every other character are unchanged.
C5_OnlyInsertsSchema ==
    Returned => OnlyInserted(sql_content, 1, modified_sql, 1, schema_name)

----------------------------------------------------------------------------
(* C6 *)

\* the reserved words of t that directly follow a clause keyword, in order
ReservedRefs(t) ==
    LET rs == SelectSeq(RefList(t), LAMBDA j : ReservedAt(t, j))
    IN [k \in 1..Len(rs) |-> t[rs[k]]]

\* the positions after a clause keyword where <schema>.<reserved word> stands
PrefixedReservedRefs(t, schema) ==
    { j \in RefStarts(t) :
        QualifiedAt(t, j, schema) /\ ReservedAt(t, j + Len(schema) + 1) }

\* C6: add_schema_to_sql never qualifies a reserved word: the reserved words
\* that follow a clause keyword in the argument follow it, unprefixed, in the
\* returned text, and no <schema>.<reserved word> is added.
C6_ReservedNeverQualified ==
    Returned =>
        /\ ReservedRefs(modified_sql) = ReservedRefs(sql_content)
        /\ Cardinality(PrefixedReservedRefs(modified_sql, schema_name))
             <= Cardinality(PrefixedReservedRefs(sql_content, schema_name))

\* a call that qualified a table has returned, and its argument holds a
\* reserved word directly after a clause keyword
C6_Witness ==
    /\ Returned
    /\ modifications > 0
    /\ ReservedRefs(sql_content) # <<>>

----------------------------------------------------------------------------
(* C8 *)

RECURSIVE Rewritten(_, _, _, _, _)
RECURSIVE Prefixed(_, _, _, _, _, _)

\* out from position o on is src from position i on in which some clauses
\* (a keyword phrase, its whitespace, the identifier directly after it) are
\* written KW <schema>.IDENT and every other piece is unchanged
Rewritten(src, i, out, o, schema) ==
    IF i > Len(src) THEN o > Len(out)
    ELSE \/ /\ o <= Len(out)
            /\ src[i] = out[o]
            /\ Rewritten(src, i + 1, out, o + 1, schema)
         \/ \E k \in 1..Len(patterns) :
              LET j    == KwMatch(src, i, patterns[k])
                  head == JoinWords(patterns[k]) \o <<" ">>
                  o2   == o + Len(head)
              IN /\ j # 0
                 /\ IdentAt(src, j)
                 /\ o2 - 1 <= Len(out)
                 /\ SubSeq(out, o, o2 - 1) = head
                 /\ Prefixed(src, j, WordEnd(src, j), out, o2, schema)

\* out from position o on is <schema>. (once or more), the upper-cased
\* identifier src[j..e-1], and then src from e on, rewritten
Prefixed(src, j, e, out, o, schema) ==
    LET o2 == o + Len(schema) + 1
        o3 == o2 + (e - j)
    IN /\ o2 - 1 <= Len(out)
       /\ SubSeq(out, o, o2 - 2) = schema
       /\ out[o2 - 1] = "."
       /\ \/ /\ o3 - 1 <= Len(out)
             /\ SubSeq(out, o2, o3 - 1) = UpperSeq(SubSeq(src, j, e - 1))
             /\ Rewritten(src, e, out, o3, schema)
          \/ Prefixed(src, j, e, out, o2, schema)

\* the scenario of the claim and the text it must yield
AliasScenario ==
    <<"SELECT", " ", "*", " ", "FROM", " ", "PEDIDO", " ", "P", " ",
      "JOIN", " ", "I", "PEDIDO", " ", "I", " ", "ON", " ", "P", ".", "ID",
      " ", "=", " ", "I", ".", "PEDIDO", "_", "ID">>

AliasScenarioResult ==
    <<"SELECT", " ", "*", " ", "FROM", " ", "BENTIVI", ".", "PEDIDO", " ",
      "P", " ", "JOIN", " ", "BENTIVI", ".", "I", "PEDIDO", " ", "I", " ",
      "ON", " ", "P", ".", "ID", " ", "=", " ", "I", ".", "PEDIDO", "_", "ID">>

\* C8: only the identifier directly after a clause keyword is qualified:
\* what follows the table name (an alias, a column reference through the
\* alias) is neither prefixed nor joined to the table name nor changed, and
\* the scenario of the claim yields the text the claim gives.
C8_OnlyIdentifierAfterKeyword ==
    Returned =>
        /\ Rewritten(sql_content, 1, modified_sql, 1, schema_name)
        /\ (sql_content = AliasScenario /\ schema_name = <<"BENTIVI">>)
              => modified_sql = AliasScenarioResult

\* a call has returned that qualified a table which an alias follows: the
\* alias NOTA of the generated texts, or the aliases of the scenario
C8_Witness ==
    /\ Returned
    /\ modifications > 0
    /\ \/ sql_content = AliasScenario
       \/ \E j \in RefStarts(sql_content) :
            LET e == WordEnd(sql_content, j) IN
            /\ BareAt(sql_content, j)
            /\ e + 1 <= Len(sql_content)
            /\ sql_content[e] = " "
            /\ sql_content[e + 1] = "NOTA"
            /\ IdentOf(sql_content, j) # <<"NOTA">>

----------------------------------------------------------------------------
(* C7 *)

\* position j of t directly follows the keyword FROM and its whitespace
FromRefAt(t, j) == \E i \in 1..Len(t) : KwMatch(t, i, <<"FROM">>) = j

\* the identifier at position j of t contains shorter identifiers: it is
\* spelled by more than one word piece (NOTA ORIG, I NOTA)
CompositeAt(t, j) == IdentAt(t, j) /\ WordEnd(t, j) > j + 1

RECURSIVE WordRuns(_, _)
\* the upper-cased identifiers (maximal runs of word pieces) of t from i on
WordRuns(t, i) ==
    IF i > Len(t) THEN {}
    ELSE IF IsWord(t[i])
         THEN {UpperSeq(SubSeq(t, i, WordEnd(t, i) - 1))}
              \cup WordRuns(t, WordEnd(t, i))
    ELSE WordRuns(t, i + 1)

\* C7 (add_schema_to_sql): a table name of which another table name is a
\* proper substring is never partially rewritten: a reference FROM B to such
\* a name becomes FROM <schema>.B, so that outside its comments the returned
\* text holds no bare FROM B, and the returned text holds no identifier that
\* is a part of an identifier of the argument.
C7_NoPartialRewrite ==
    Returned =>
        LET dst == RemoveComments(modified_sql)
        IN /\ \A j \in RefStarts(dst) :
                ~(FromRefAt(dst, j) /\ BareAt(dst, j) /\ CompositeAt(dst, j))
           /\ WordRuns(modified_sql, 1)
                \subseteq WordRuns(sql_content, 1) \cup {UpperSeq(schema_name)}

----------------------------------------------------------------------------
(* C9 *)

\* no reference of t is dotted: what follows a clause keyword is a bare
\* identifier or no identifier at all
AllBare(t) ==
    \A j \in RefStarts(t) :
        IdentAt(t, j) =>
            LET e == WordEnd(t, j) IN ~(e <= Len(t) /\ t[e] = ".")

\* C9: the patterns applied one after another never rewrite a reference
\* twice: when every reference of the argument is bare, every reference of
\* the returned text (outside comments) carries exactly one <schema>. prefix.
C9_ExactlyOnePrefix ==
    (Returned /\ AllBare(sql_content) /\ AllBare(RemoveComments(sql_content)))
    => LET dst == RemoveComments(modified_sql) IN
       \A j \in RefStarts(dst) :
          (IdentAt(dst, j) /\ ~ReservedAt(dst, j)) =>
              /\ QualifiedAt(dst, j, schema_name)
              /\ BareAt(dst, j + Len(schema_name) + 1)

----------------------------------------------------------------------------
(* C10 *)

\* t holds no qualifiable reference: what follows a clause keyword, inside or
\* outside comments, is a reserved word, an already qualified reference
\* <schema>.<table>, or no identifier
NoQualifiable(t, schema) ==
    \A j \in RefStarts(t) \cup RefStarts(RemoveComments(t)) :
        LET u == IF j \in RefStarts(t) THEN t ELSE RemoveComments(t) IN
        IdentAt(u, j) => (ReservedAt(u, j) \/ QualifiedAt(u, j, schema))

\* C10: add_schema_to_sql returns its argument unchanged when the argument
\* holds no qualifiable reference.
C10_UnchangedWithoutReference ==
    (Returned /\ NoQualifiable(sql_content, schema_name))
    => modified_sql = sql_content
----------------------------------------------------------------------------
(* add_schema_to_sql called with any schema name *)

\* how many pieces a schema name holds at most
MaxSchemaLen == 2

\* how many pieces a text holds at most when many schema names are tried
MaxSmallPieces == 6

\* what a schema name is made of: words in either letter case, a table
\* name, and a backslash followed by a letter (n, d)
SchemaPieces == {"BENTIVI", "bentivi", "NOTA", "\\n", "\\d"}

RECURSIVE SeqsUpTo(_, _)
\* the sequences of at most n members of S
SeqsUpTo(S, n) ==
    IF n = 0 THEN { <<>> }
    ELSE { <<>> } \cup { <<x>> \o r : x \in S, r \in SeqsUpTo(S, n - 1) }

\* the non-empty schema names
AnySchemas == SeqsUpTo(SchemaPieces, MaxSchemaLen) \ { <<>> }

SmallDocs == ClauseTexts(MaxSmallPieces) \cup Scenarios

InitAnySchema ==
    /\ sql_content \in SmallDocs
    /\ schema_name \in AnySchemas
    /\ tables = <<>>
    /\ modified_sql = <<>>
    /\ modifications = 0
    /\ ti = 1
    /\ pi = 1
    /\ pc = "call"
    /\ calls = 0
    /\ NoFiles
    /\ NoEnviron

SpecAnySchema == InitAnySchema /\ [][Next]_vars

\* the substitution passes the current call has been through
Passes == (ti - 1) * Len(patterns) + (pi - 1)

\* C11: add_schema_to_sql has no fatal condition: for every text and every
\* non-empty schema name the call never raises, goes through at most
\* (tables found x 8 patterns) substitution passes and then returns a text.
C11_NoFatalCondition ==
    /\ pc # "raised"
    /\ pc = "loop" => Passes < Len(tables) * Len(patterns)
    /\ Returned => Passes \in {0, Len(tables) * Len(patterns)}
----------------------------------------------------------------------------
(* add_bentivi_schema of add_schema.py *)

\* the list tables of lines 15-23, in the order of the source; a name that
\* holds another word of the vocabulary is spelled by its pieces
AddSchemaTables ==
    << <<"estoque">>, <<"topctrl">>, <<"receber">>, <<"cabrec">>,
       <<"notacrc">>, <<"I", "NOTA">>, <<"NOTA">>, <<"CICLO">>, <<"CABTAB">>,
       <<"TRANSAC">>, <<"PROPRIED">>, <<"MUNICIPIO">>, <<"PESSOAL">>,
       <<"FUNCAOTOPER">>, <<"TIPOOPER">>, <<"CFO">>, <<"PRODSERV">>,
       <<"GRUPO">>, <<"SUBGRUPO">>, <<"PRODUTO">>, <<"transac">>,
       <<"condicao">>, <<"indexador">>, <<"INDVALOR">>, <<"i", "nota">>,
       <<"nota">>, <<"nota", "orig">>, <<"I", "NFENTRA">>,
       <<"NOTA", "ORIG">>, <<"pedido">>, <<"i", "pedido">>, <<"CULTURA">>,
       <<"receita">>, <<"i", "receita">>, <<"NFENTRA">>,
       <<"I", "DOCDESFAZ">>, <<"DOCDESFAZ">>, <<"CABDESFAZ">> >>

\* len(table)
StrLen(table) == Len(Codes(UpperSeq(table)))

RECURSIVE InsertByLen(_, _)
\* x put into the list q, sorted by falling length, behind the names that
\* are as long as x
InsertByLen(q, x) ==
    IF q = <<>> THEN <<x>>
    ELSE IF StrLen(Head(q)) >= StrLen(x)
         THEN <<Head(q)>> \o InsertByLen(Tail(q), x)
    ELSE <<x>> \o q

RECURSIVE SortByLen(_)
\* sorted(iteration, key=len, reverse=True): a stable sort, so names of one
\* length keep the order of the iteration
SortByLen(iteration) ==
    IF iteration = <<>> THEN <<>>
    ELSE InsertByLen(SortByLen(SubSeq(iteration, 1, Len(iteration) - 1)),
                     iteration[Len(iteration)])

\* the pairs of positions of the list whose names are equal but for their
\* letter case (NOTA and nota, INOTA and inota, ...)
CasePairs(list) ==
    { p \in (1..Len(list)) \X (1..Len(list)) :
        p[1] < p[2] /\ UpperSeq(list[p[1]]) = UpperSeq(list[p[2]]) }

\* the list with the names of the pairs S in each other's place
Swapped(list, S) ==
    [k \in 1..Len(list) |->
        IF \E p \in S : p[1] = k THEN list[(CHOOSE p \in S : p[1] = k)[2]]
        ELSE IF \E p \in S : p[2] = k
             THEN list[(CHOOSE p \in S : p[2] = k)[1]]
        ELSE list[k]]

\* line 26 for a list: set(tables) iterates in an order that changes from
\* one run to the next (string hashing).  Only the order of two names that
\* are equal but for their letter case matters, since a substitution for one
\* name neither makes nor removes a match of a name that differs in more
\* than case; so one iteration stands for each way to order those pairs.
SortedIterations(list) ==
    { SortByLen(Swapped(list, S)) : S \in SUBSET CasePairs(list) }

\* unique_tables when the schema name itself is among the tables
UniqueTableOrders_WithSchema ==
    SortedIterations(AddSchemaTables \o << <<"BENTIVI">> >>)

\* line 26: the values unique_tables can have
UniqueTableOrders == SortedIterations(AddSchemaTables)

\* the alternatives of the group of line 46, in its order
AddSchemaKeywords ==
    << <<"FROM">>, <<"INNER", "JOIN">>, <<"LEFT", "JOIN">>,
       <<"RIGHT", "JOIN">>, <<"FULL", "JOIN">>, <<"JOIN">> >>

\* (?<!BENTIVI\.) at position i of t (re.IGNORECASE)
NotAfterBentivi(t, i) ==
    ~(i > 2 /\ t[i - 1] = "." /\ Upper(t[i - 2]) = "BENTIVI")

RECURSIVE GroupEnd(_, _, _, _)
\* the position after group 1 (the keyword phrase as the text writes it)
\* when the phrase kw is matched at i
GroupEnd(t, i, kw, k) ==
    IF k = Len(kw) THEN i + 1
    ELSE GroupEnd(t, SkipSpace(t, i + 1), kw, k + 1)

\* the pattern of line 46 matched at i: <<end of group 1, end of the match>>
\* (both exclusive), or <<0, 0>>
AddSchemaMatch(t, i, table) ==
    IF ~WordAt(t, i) \/ WordAt(t, i - 1) \/ ~NotAfterBentivi(t, i)
    THEN <<0, 0>>
    ELSE LET ks == { k \in 1..Len(AddSchemaKeywords) :
                       TableMatch(t, i, AddSchemaKeywords[k], table) # 0 }
         IN IF ks = {} THEN <<0, 0>>
            ELSE LET k == CHOOSE x \in ks : \A y \in ks : x <= y
                 IN <<GroupEnd(t, i, AddSchemaKeywords[k], 1),
                      TableMatch(t, i, AddSchemaKeywords[k], table)>>

RECURSIVE AddSchemaSub(_, _, _)
\* lines 45-50: re.sub of the pattern by r'\1 BENTIVI.{table}' from i on
AddSchemaSub(t, i, table) ==
    IF i > Len(t) THEN <<>>
    ELSE LET m == AddSchemaMatch(t, i, table) IN
         IF m[2] = 0 THEN <<t[i]>> \o AddSchemaSub(t, i + 1, table)
         ELSE SubSeq(t, i, m[1] - 1) \o <<" ", "BENTIVI", ".">> \o table
              \o AddSchemaSub(t, m[2], table)

\* lines 41-50: each of the three entries of patterns holds FROM or JOIN, so
\* the same substitution runs three times for a table (a substitution that
\* leaves the text as it is leaves it so the second and third time)
\* (and a text that does not hold the first word of the table has no match)
AddSchemaTable(t, table) ==
    IF \A i \in 1..Len(t) : Upper(t[i]) # Upper(table[1]) THEN t
    ELSE LET once == AddSchemaSub(t, 1, table)
         IN IF once = t THEN t
            ELSE AddSchemaSub(AddSchemaSub(once, 1, table), 1, table)

RECURSIVE AddSchemaLoop(_, _, _)
\* the loop of line 31 from the k-th table on
AddSchemaLoop(t, unique_tables, k) ==
    IF k > Len(unique_tables) THEN t
    ELSE LET new_sql == AddSchemaTable(t, unique_tables[k])
         IN IF new_sql = t THEN AddSchemaLoop(t, unique_tables, k + 1)
            ELSE AddSchemaLoop(new_sql, unique_tables, k + 1)

\* lines 9-52, for one iteration order of set(tables)
add_bentivi_schema(sql, unique_tables) == AddSchemaLoop(sql, unique_tables, 1)

\* how many pieces a text given to add_bentivi_schema holds at most
MaxAddSchemaPieces == 8

RECURSIVE TextsOf(_, _, _)
\* the texts of at most b pieces made of the given clauses with one of the
\* given separators between them
TextsOf(clauses, seps, b) ==
    UNION { {c}
            \cup UNION { {c \o s}
                         \cup { c \o s \o t :
                                  t \in TextsOf(clauses, seps,
                                                b - Len(c) - Len(s)) } :
                         s \in { x \in seps : Len(c) + Len(x) <= b } } :
            c \in { x \in clauses : Len(x) <= b } }

\* keywords with the whitespace that follows them: those of line 46 in
\* either letter case, and one behind "BENTIVI."
AddSchemaClauseKeywords ==
    { <<"FROM", " ">>, <<"JOIN", "\n">>, <<"inner", "\t", "JOIN", " ">>,
      <<"FULL", " ", "JOIN", " ", " ">>, <<"BENTIVI", ".", "FROM", " ">> }

\* what follows a keyword: listed tables as the list spells them and in
\* another letter case, a name not listed, qualified names
AddSchemaReferences ==
    { <<"NOTA">>, <<"Nota">>, <<"NOTA", "ORIG">>, <<"PEDIDO">>, <<"X">>,
      <<"BENTIVI", ".", "NOTA">>, <<"bentivi", ".", "nota">>,
      <<"NOTA", ".", "CFO">> }

AddSchemaClauses ==
    { k \o r : k \in AddSchemaClauseKeywords, r \in AddSchemaReferences }

AddSchemaSeparators ==
    { <<" ">>, <<"\n">>, <<" ", "P", " ">>, <<" ", "--", " ">> }

AddSchemaDocs ==
    TextsOf(AddSchemaClauses, AddSchemaSeparators, MaxAddSchemaPieces)
    \cup Scenarios

InitAddSchema ==
    /\ sql_content \in AddSchemaDocs
    /\ schema_name = <<"BENTIVI">>
    /\ tables = <<>>
    /\ modified_sql = <<>>
    /\ modifications = 0
    /\ ti = 1
    /\ pi = 1
    /\ pc = "call"
    /\ calls = 0
    /\ NoFiles
    /\ NoEnviron

\* lines 9-52: one call of add_bentivi_schema
AddSchemaCall ==
    /\ pc = "call"
    /\ \E unique_tables \in UniqueTableOrders :
          modified_sql' = add_bentivi_schema(sql_content, unique_tables)
    /\ pc' = "done"
    /\ calls' = calls + 1
    /\ UNCHANGED <<sql_content, schema_name, tables, modifications, ti, pi,
                   fvars, cvars>>

NextAddSchema == AddSchemaCall \/ Again

SpecAddSchema == InitAddSchema /\ [][NextAddSchema]_vars

----------------------------------------------------------------------------
(* C16 *)

\* a keyword phrase of line 46 stands at i and its whitespace ends at j
AddSchemaKwAt(t, i, j) ==
    \E k \in 1..Len(AddSchemaKeywords) :
        j # 0 /\ KwMatch(t, i, AddSchemaKeywords[k]) = j

RECURSIVE BentiviRefs(_, _)
\* the references of t, from position i on, that are already written
\* BENTIVI.<table> after a keyword of line 46: each from its keyword to the
\* end of the table name, in order
BentiviRefs(t, i) ==
    IF i > Len(t) THEN <<>>
    ELSE LET js == { j \in 1..Len(t) :
                       /\ AddSchemaKwAt(t, i, j)
                       /\ QualifiedAt(t, j, <<"BENTIVI">>) }
         IN IF js = {} THEN BentiviRefs(t, i + 1)
            ELSE LET j == CHOOSE x \in js : TRUE
                 IN <<SubSeq(t, i, WordEnd(t, j + 2) - 1)>>
                    \o BentiviRefs(t, i + 1)

\* C16: add_bentivi_schema is idempotent: the second of two calls in a row,
\* whose argument is the text the first one returned, returns its argument;
\* and every reference already written BENTIVI.<table> stands unchanged in
\* the returned text.
C16_AddBentiviIdempotent ==
    Returned =>
        /\ calls = 2 => modified_sql = sql_content
        /\ IsSubseq(BentiviRefs(sql_content, 1), BentiviRefs(modified_sql, 1))

\* the second call has returned, on a text in which the first call
\* qualified a table (BENTIVI.nota or BENTIVI.pedido, spellings that only
\* the substitution writes) next to a reference that was qualified before
C16_Witness ==
    /\ Returned
    /\ calls = 2
    /\ \E i \in 1..Len(sql_content) - 2 :
          /\ sql_content[i] = "BENTIVI"
          /\ sql_content[i + 1] = "."
          /\ sql_content[i + 2] \in {"nota", "pedido"}
    /\ \E i \in 1..Len(sql_content) - 2 :
          /\ sql_content[i] \in {"BENTIVI", "bentivi"}
          /\ sql_content[i + 1] = "."
          /\ sql_content[i + 2] \in {"NOTA", "nota"}
          /\ sql_content[i] = "bentivi" \/ sql_content[i + 2] = "NOTA"

----------------------------------------------------------------------------
(* C20 *)

RECURSIVE InsertedBentivi(_, _, _, _)
\* out from position o on is src from position i on with BENTIVI. put in
\* front of some identifiers; a run of whitespace may be another run of
\* whitespace; nothing else is changed
InsertedBentivi(src, i, out, o) ==
    IF o > Len(out) THEN i > Len(src)
    ELSE \/ /\ i <= Len(src)
            /\ src[i] = out[o]
            /\ InsertedBentivi(src, i + 1, out, o + 1)
         \/ /\ i <= Len(src)
            /\ IsSpace(src[i])
            /\ IsSpace(out[o])
            /\ InsertedBentivi(src, SkipSpace(src, i), out, SkipSpace(out, o))
         \/ /\ o + 1 <= Len(out)
            /\ out[o] = "BENTIVI"
            /\ out[o + 1] = "."
            /\ IdentAt(out, o + 2)
            /\ InsertedBentivi(src, i, out, o + 2)

\* C20: add_bentivi_schema keeps each table identifier as the argument
\* writes it and only inserts BENTIVI. before it (the whitespace between
\* keyword and table may change), and the scenario of the claim yields the
\* text the claim gives.
C20_KeepsIdentifier ==
    Returned =>
        /\ InsertedBentivi(sql_content, 1, modified_sql, 1)
        /\ sql_content = AliasScenario => modified_sql = AliasScenarioResult

----------------------------------------------------------------------------
(* fix_missing_schemas: the substitutions of lines 37-43 *)

\* table_fixes of lines 17-26: <<old_pattern, new_pattern>>
table_fixes ==
    << << <<"CFO">>, <<"BENTIVI", ".", "CFO">> >>,
       << <<"TRANSAC">>, <<"BENTIVI", ".", "TRANSAC">> >>,
       << <<"NEGOCIACAO">>, <<"BENTIVI", ".", "NEGOCIACAO">> >>,
       << <<"INDVALOR">>, <<"BENTIVI", ".", "INDVALOR">> >>,
       << <<"CABREC">>, <<"BENTIVI", ".", "CABREC">> >>,
       << <<"NOTA", " ", "N">>, <<"BENTIVI", ".", "NOTA", " ", "N">> >>,
       << <<"NFENTRA", " ", "N">>, <<"BENTIVI", ".", "NFENTRA", " ", "N">> >> >>

\* the pattern of line 40 without its lookbehind
FixNotAfterSchema_NoLookbehind(t, i) == TRUE

\* (?<!BENTIVI\.) at position i of t: the pattern of line 40 has no flags,
\* so letter case counts
FixNotAfterSchema(t, i) ==
    ~(i > 2 /\ t[i - 1] = "." /\ t[i - 2] = "BENTIVI")

\* the pattern of line 40, \b(?<!BENTIVI\.){re.escape(old_pattern)}\b,
\* matched at i: the position after the match, or 0
FixMatch(t, i, old_pattern) ==
    LET e == i + Len(old_pattern) IN
    IF e - 1 > Len(t) THEN 0
    ELSE IF SubSeq(t, i, e - 1) # old_pattern THEN 0
    ELSE IF WordAt(t, i - 1) \/ WordAt(t, e) THEN 0
    ELSE IF ~FixNotAfterSchema(t, i) THEN 0
    ELSE e

\* line 41: re.search(pattern, content)
FixSearch(t, old_pattern) ==
    \E i \in 1..Len(t) : FixMatch(t, i, old_pattern) # 0

RECURSIVE FixSub(_, _, _, _)
\* line 42: re.sub(pattern, new_pattern, content) from position i on
FixSub(t, i, old_pattern, new_pattern) ==
    IF i > Len(t) THEN <<>>
    ELSE LET e == FixMatch(t, i, old_pattern) IN
         IF e = 0 THEN <<t[i]>> \o FixSub(t, i + 1, old_pattern, new_pattern)
         ELSE new_pattern \o FixSub(t, e, old_pattern, new_pattern)

RECURSIVE FixLoop(_, _, _)
\* lines 38-43 from the k-th entry of table_fixes on:
\* <<content, fixes_made>> after the loop
FixLoop(content, fixes_made, k) ==
    IF k > Len(table_fixes) THEN <<content, fixes_made>>
    ELSE IF FixSearch(content, table_fixes[k][1])
         THEN FixLoop(FixSub(content, 1, table_fixes[k][1],
                             table_fixes[k][2]),
                      fixes_made + 1, k + 1)
    ELSE FixLoop(content, fixes_made, k + 1)

\* lines 34-43: content after the corrections
FixedContent(content) == FixLoop(content, 0, 1)[1]

\* how many pieces a text given to the corrections holds at most
MaxFixPieces == 7

\* what stands before a name: a clause keyword, the start of a select list,
\* of a comment, of a string, another qualifier
FixPrefixes ==
    { <<"FROM", " ">>, <<"JOIN", "\n">>, <<"SELECT", " ">>, <<"--", " ">>,
      <<"'">>, <<"X", ".">> }

\* names of the fix list, bare and qualified in either letter case, and in
\* lower case
FixNames ==
    { <<"CFO">>, <<"cfo">>, <<"NOTA", " ", "N">>, <<"NOTA">>,
      <<"BENTIVI", ".", "CFO">>, <<"bentivi", ".", "CFO">>,
      <<"BENTIVI", ".", "NOTA", " ", "N">> }

FixClauses == { k \o r : k \in FixPrefixes, r \in FixNames }

FixSeparators == { <<" ">>, <<"\n">>, <<",">>, <<"'", " ">>, <<" ", "N", " ">> }

FixDocs == TextsOf(FixClauses, FixSeparators, MaxFixPieces) \cup Scenarios

InitFix ==
    /\ sql_content \in FixDocs
    /\ schema_name = <<"BENTIVI">>
    /\ tables = <<>>
    /\ modified_sql = <<>>
    /\ modifications = 0
    /\ ti = 1
    /\ pi = 1
    /\ pc = "call"
    /\ calls = 0
    /\ NoFiles
    /\ NoEnviron

\* lines 34-43 for the content of one file: sql_content is original_content,
\* modified_sql is content, modifications is fixes_made
FixCall ==
    /\ pc = "call"
    /\ modified_sql' = FixLoop(sql_content, 0, 1)[1]
    /\ modifications' = FixLoop(sql_content, 0, 1)[2]
    /\ pc' = "done"
    /\ calls' = calls + 1
    /\ UNCHANGED <<sql_content, schema_name, tables, ti, pi, fvars, cvars>>

NextFix == FixCall \/ Again

SpecFix == InitFix /\ [][NextFix]_vars

----------------------------------------------------------------------------
(* C17 *)

\* a name of the fix list stands at position i of t
FixNameAt(t, i) ==
    \E k \in 1..Len(table_fixes) :
        LET e == i + Len(table_fixes[k][1]) IN
        /\ e - 1 <= Len(t)
        /\ SubSeq(t, i, e - 1) = table_fixes[k][1]

RECURSIVE InsertedWhere(_, _, _, _, _)
\* out from position o on is src from position i on with BENTIVI. put in
\* front of names of the fix list, only at positions of src that are in
\* allowed, and nothing else changed
InsertedWhere(src, i, out, o, allowed) ==
    IF o > Len(out) THEN i > Len(src)
    ELSE \/ /\ i <= Len(src)
            /\ src[i] = out[o]
            /\ InsertedWhere(src, i + 1, out, o + 1, allowed)
         \/ /\ o + 1 <= Len(out)
            /\ out[o] = "BENTIVI"
            /\ out[o + 1] = "."
            /\ FixNameAt(src, i)
            /\ i \in allowed
            /\ InsertedWhere(src, i, out, o + 2, allowed)

\* the name at position i of t is not written <schema>.<table> with the
\* schema BENTIVI in any letter case
NotQualifiedAt(t, i) ==
    ~(i > 2 /\ t[i - 1] = "." /\ Upper(t[i - 2]) = "BENTIVI")

\* C17: fix_missing_schemas never double-qualifies: it puts BENTIVI. only
\* before names of its fix list that are not already written
\* <schema>.<table> with the schema BENTIVI in any letter case, and changes
\* nothing else.
C17_FixNeverDoubleQualifies ==
    Returned =>
        InsertedWhere(sql_content, 1, modified_sql, 1,
                      { i \in 1..Len(sql_content) :
                          NotQualifiedAt(sql_content, i) })

----------------------------------------------------------------------------
(* C18 *)

\* position i of t is outside the comments of t
OutsideComments(t, i) ==
    Len(RemoveComments(SubSeq(t, 1, i))) =
        Len(RemoveComments(SubSeq(t, 1, i - 1))) + 1

\* the name at position i of t is the identifier that directly follows a
\* clause keyword, outside comments
TableReferenceAt(t, i) == i \in RefStarts(t) /\ OutsideComments(t, i)

\* C18: fix_missing_schemas rewrites only table references: it puts
\* BENTIVI. before a name of its fix list only where the name directly
\* follows a clause keyword; a column name, a name behind another
\* qualifier, a name in a comment or a string is unchanged.
C18_FixOnlyTableReferences ==
    Returned =>
        InsertedWhere(sql_content, 1, modified_sql, 1,
                      { i \in 1..Len(sql_content) :
                          TableReferenceAt(sql_content, i) })

----------------------------------------------------------------------------
(* Files *)

\* A path is <<directory, stem, suffix>>.  fs maps each path that exists to
\* its content [text, utf8]: the text its bytes spell, and whether the bytes
\* are valid UTF-8 (text is <<>> when they are not).

\* sql_dir of the scripts
sql_dir == "sqls"

\* how many SQL files there are at most
MaxFiles == 2

\* the stems of the SQL files, in the order sorted() gives their paths
Names == SubSeq(<<"a", "b", "c", "d">>, 1, MaxFiles)

\* the file sqls/<stem>.sql
SqlPath(stem) == <<sql_dir, stem, ".sql">>

\* what the file system holds at the path of a directory
Directory == [dir |-> TRUE]

\* the directory sqls
SqlDir == <<sql_dir, "", "">>

\* f after mkdir(exist_ok=True) of the directory at path
Mkdir(f, path) ==
    [q \in DOMAIN f \cup {path} |-> IF q = path THEN Directory ELSE f[q]]

\* Path(sql_dir).glob("*.sql") on the file system f
Glob(f) == { q \in DOMAIN f : q[1] = sql_dir /\ q[3] = ".sql" }

RECURSIVE SortedPaths(_, _)
\* sorted(sql_files): the paths of S by their names, from the k-th name on
SortedPaths(S, k) ==
    IF k > Len(Names) THEN <<>>
    ELSE IF SqlPath(Names[k]) \in S
         THEN <<SqlPath(Names[k])>> \o SortedPaths(S, k + 1)
    ELSE SortedPaths(S, k + 1)

\* the content of a file written with open(path, 'w', encoding='utf-8')
Written(text) == [text |-> text, utf8 |-> TRUE]

\* f after f.write(text) on open(path, 'w')
WriteFile(f, path, text) ==
    [q \in DOMAIN f \cup {path} |-> IF q = path THEN Written(text) ELSE f[q]]

\* f after shutil.copy2(src, dst): the bytes are copied as they are
CopyFile(f, src, dst) ==
    [q \in DOMAIN f \cup {dst} |-> IF q = dst THEN f[src] ELSE f[q]]

\* open(path, 'r', encoding='utf-8') and f.read(): the exception raised,
\* or "" when the text is read
ReadError(f, path) ==
    IF path \notin DOMAIN f THEN "FileNotFoundError"
    ELSE IF ~f[path].utf8 THEN "UnicodeDecodeError"
    ELSE ""

\* how many times a script is run on the directory at most
MaxRuns == 2

\* datetime.now().strftime("%Y%m%d_%H%M%S") in successive clock seconds
Timestamps == <<"T1", "T2", "T3", "T4">>

\* backup_sql_files, line 14: backup_dir
BackupDir == <<"sqls_backup", "", "">>

\* line 18: backup_path, the directory sqls_backup/backup_<timestamp>
BackupPathDir(timestamp) == <<"sqls_backup", Timestamps[timestamp], "", "">>

\* line 23: the backup of a file is sqls_backup/backup_<timestamp>/<name>
BackupPath(path, timestamp) ==
    <<"sqls_backup", Timestamps[timestamp], path[2], path[3]>>

RECURSIVE CopyAll(_, _, _)
\* lines 21-23: every file of the set S copied to its backup path
CopyAll(f, S, timestamp) ==
    IF S = {} THEN f
    ELSE LET q == CHOOSE x \in S : TRUE
         IN CopyAll(CopyFile(f, q, BackupPath(q, timestamp)), S \ {q},
                    timestamp)

\* backup_sql_files that creates the directories and copies nothing
backup_sql_files_NoCopy(f, timestamp) ==
    Mkdir(Mkdir(f, BackupDir), BackupPathDir(timestamp))

\* lines 12-26: the file system after backup_sql_files(sql_dir) called in
\* the clock second timestamp; mkdir(exist_ok=True) takes a directory that
\* is already there
backup_sql_files(f, timestamp) ==
    CopyAll(Mkdir(Mkdir(f, BackupDir), BackupPathDir(timestamp)),
            Glob(f), timestamp)

\* process_sql_file that writes the file and returns True whether or not
\* the text changed
process_sql_file_WritesAlways(f, path) ==
    IF ReadError(f, path) # "" THEN <<f, ReadError(f, path)>>
    ELSE <<WriteFile(f, path, add_schema_to_sql(f[path].text, <<"BENTIVI">>)),
           "True">>

\* lines 102-123, process_sql_file(path) with the default schema, as one
\* step: <<file system afterwards, value returned or exception raised>>
process_sql_file(f, path) ==
    IF ReadError(f, path) # "" THEN <<f, ReadError(f, path)>>
    ELSE LET original_content == f[path].text
             modified_content == add_schema_to_sql(original_content,
                                                   <<"BENTIVI">>)
         IN IF modified_content # original_content
            THEN <<WriteFile(f, path, modified_content), "True">>
            ELSE <<f, "False">>

\* fix_missing_schemas, line 48: sql_file.with_suffix('.sql.bak_<time>')
BakPath(path) == <<path[1], path[2], ".sql.bak_T">>

\* add_schema.py, lines 55-56
input_file ==
    <<"/Users/cmorafre/Development/projects/integracao_etl_geodata/sqls",
      "faturamento_erp_v2_otimizado_v2", ".sql">>

output_file ==
    <<"/Users/cmorafre/Development/projects/integracao_etl_geodata/sqls",
      "faturamento_erp_v2_final", ".sql">>

\* add_schema.py, lines 73-75 with the handler printing and returning
ExceptExit_Swallowed == "None"

\* add_schema.py, lines 73-75: except Exception: sys.exit(1)
ExceptExit == "exit 1"

----------------------------------------------------------------------------
(* The scripts that read and write files *)

\* the texts found in the files
FileTexts ==
    { <<"FROM", " ", "NOTA">>, <<"FROM", " ", "CFO">>,
      <<"SELECT", " ", "1">>, <<"FROM", " ", "BENTIVI", ".", "NOTA">>,
      <<"FROM", " ", "PEDIDO", " ", "JOIN", " ", "NOTA", " ", "N">>,
      <<"FROM", " ", "bentivi", ".", "CFO">>,
      <<"SELECT", " ", "CFO", ",", " ", "X", ".", "CFO">> }

\* the contents found in the files: texts, and bytes that are no UTF-8
FileContents ==
    { Written(t) : t \in FileTexts } \cup { [text |-> <<>>, utf8 |-> FALSE] }

\* the file systems in which some of the paths of S exist
FileSystems(S) == UNION { [D -> FileContents] : D \in SUBSET S }

\* the file systems in which the directory sqls exists and holds some of
\* the files of S, and the one without the directory
DirectoryFileSystems(S) ==
    { Mkdir(f, SqlDir) : f \in FileSystems(S) } \cup { <<>> }

\* the locals of a script or of a call that has not started: processed is
\* what line 104 has printed, before is the file system the run started on
Start(path) ==
    [pc |-> "start", file |-> path, original_content |-> <<>>,
     modified_content |-> <<>>, ret |-> "", modified_files |-> 0,
     total_files |-> 0, processed |-> <<>>, run |-> 1, timestamp |-> 1,
     before |-> <<>>]

\* the file the p-th of the concurrent calls of process_sql_file is given:
\* the same file for every call
CallFile_Same(p) == SqlPath(Names[1])

\* the file the p-th of the concurrent calls of process_sql_file is given:
\* the calls work on distinct files
CallFile(p) == SqlPath(Names[p])

\* the scripts: main of add_schema_bentivi.py, fix_missing_schemas, main of
\* add_schema.py, and a caller that runs process_sql_file on several files
\* at once
Tools == {"main", "fix", "add_schema", "process"}

InitFiles ==
    /\ NoRewriter
    /\ NoEnviron
    /\ tool \in Tools
    /\ fs \in IF tool = "add_schema"
              THEN FileSystems({input_file, output_file})
              ELSE DirectoryFileSystems(
                       { SqlPath(Names[k]) : k \in 1..Len(Names) })
    /\ fs0 = fs
    /\ queue = <<>>
    /\ task = IF tool = "process"
              THEN [p \in 1..Len(Names) |-> Start(CallFile(p))]
              ELSE << [Start(<<>>) EXCEPT !.before = fs] >>

\* main without the checks of lines 133-141
MainStart_NoCheck ==
    /\ tool = "main"
    /\ task[1].pc = "start"
    /\ task' = [task EXCEPT ![1].pc = "backup"]
    /\ queue' = SortedPaths(Glob(fs), 1)
    /\ UNCHANGED <<fs, fs0, tool, qvars, cvars>>

\* add_schema_bentivi.py main, lines 133-142: return 1 when the directory
\* does not exist or holds no SQL file, else the list of files
MainStart ==
    /\ tool = "main"
    /\ task[1].pc = "start"
    /\ IF SqlDir \notin DOMAIN fs \/ Glob(fs) = {}
       THEN /\ task' = [task EXCEPT ![1].pc = "returned", ![1].ret = "1"]
            /\ UNCHANGED queue
       ELSE /\ task' = [task EXCEPT ![1].pc = "backup"]
            /\ queue' = SortedPaths(Glob(fs), 1)
    /\ UNCHANGED <<fs, fs0, tool, qvars, cvars>>

\* line 148: backup_path = backup_sql_files(sql_dir)
MainBackup ==
    /\ tool = "main"
    /\ task[1].pc = "backup"
    /\ \E timestamp \in
           IF task[1].run = 1 THEN {1}
           ELSE {task[1].timestamp, task[1].timestamp + 1} :
          /\ fs' = backup_sql_files(fs, timestamp)
          /\ task' = [task EXCEPT ![1].pc = "loop",
                                  ![1].timestamp = timestamp]
    /\ UNCHANGED <<fs0, tool, queue, qvars, cvars>>

\* lines 154-157: process_sql_file on the next file; its exception leaves
\* main
MainProcess ==
    /\ tool = "main"
    /\ task[1].pc = "loop"
    /\ queue # <<>>
    /\ LET r == process_sql_file(fs, Head(queue)) IN
       /\ fs' = r[1]
       /\ IF r[2] \in {"True", "False"}
          THEN /\ queue' = Tail(queue)
               /\ task' = [task EXCEPT
                             ![1].file = Head(queue),
                             ![1].total_files = @ + 1,
                             ![1].processed = Append(@, Head(queue)),
                             ![1].modified_files =
                                 IF r[2] = "True" THEN @ + 1 ELSE @]
          ELSE /\ task' = [task EXCEPT ![1].pc = "raised",
                                       ![1].file = Head(queue),
                                       ![1].total_files = @ + 1,
                                       ![1].processed = Append(@, Head(queue)),
                                       ![1].ret = r[2]]
               /\ UNCHANGED queue
    /\ UNCHANGED <<fs0, tool, qvars, cvars>>

\* lines 160-173: the report, return 0
MainReturn ==
    /\ tool = "main"
    /\ task[1].pc = "loop"
    /\ queue = <<>>
    /\ task' = [task EXCEPT ![1].pc = "returned", ![1].ret = "0"]
    /\ UNCHANGED <<fs, fs0, tool, queue, qvars, cvars>>

\* the script is run again on the directory as the last run left it; the
\* clock has not gone back
MainAgain ==
    /\ tool = "main"
    /\ task[1].pc \in {"returned", "raised"}
    /\ task[1].run < MaxRuns
    /\ task' = << [Start(<<>>) EXCEPT !.run = task[1].run + 1,
                                      !.timestamp = task[1].timestamp,
                                      !.before = fs] >>
    /\ queue' = <<>>
    /\ UNCHANGED <<fs, fs0, tool, qvars, cvars>>

\* the orders in which the elements of S can be listed
Orders(S) ==
    { o \in [1..Cardinality(S) -> S] :
        \A i, j \in 1..Cardinality(S) : i # j => o[i] # o[j] }

\* fix_missing_schemas, line 28: sql_dir.glob("*.sql") lists the files in
\* the order of the directory, which is any order
FixStart ==
    /\ tool = "fix"
    /\ task[1].pc = "start"
    /\ \E order \in Orders(Glob(fs)) : queue' = order
    /\ task' = [task EXCEPT ![1].pc = "loop"]
    /\ UNCHANGED <<fs, fs0, tool, qvars, cvars>>

\* lines 31-46: read the next file, apply the corrections, compare
FixRead ==
    /\ tool = "fix"
    /\ task[1].pc = "loop"
    /\ queue # <<>>
    /\ LET sql_file == Head(queue) IN
       IF ReadError(fs, sql_file) # ""
       THEN /\ task' = [task EXCEPT ![1].pc = "raised",
                                    ![1].file = sql_file,
                                    ![1].ret = ReadError(fs, sql_file)]
            /\ UNCHANGED queue
       ELSE LET original_content == fs[sql_file].text
                content == FixedContent(original_content)
            IN /\ task' = [task EXCEPT
                             ![1].pc = IF content # original_content
                                       THEN "backup" ELSE "loop",
                             ![1].file = sql_file,
                             ![1].original_content = original_content,
                             ![1].modified_content = content]
               /\ queue' = IF content # original_content
                           THEN queue ELSE Tail(queue)
    /\ UNCHANGED <<fs, fs0, tool, qvars, cvars>>

\* lines 48-49: shutil.copy2(sql_file, backup_file)
FixBackup ==
    /\ tool = "fix"
    /\ task[1].pc = "backup"
    /\ fs' = CopyFile(fs, task[1].file, BakPath(task[1].file))
    /\ task' = [task EXCEPT ![1].pc = "write"]
    /\ UNCHANGED <<fs0, tool, queue, qvars, cvars>>

\* lines 52-53: the corrected content written over the file
FixWrite ==
    /\ tool = "fix"
    /\ task[1].pc = "write"
    /\ fs' = WriteFile(fs, task[1].file, task[1].modified_content)
    /\ task' = [task EXCEPT ![1].pc = "loop",
                            ![1].modified_files = @ + 1]
    /\ queue' = Tail(queue)
    /\ UNCHANGED <<fs0, tool, qvars, cvars>>

\* the loop of line 28 is over
FixReturn ==
    /\ tool = "fix"
    /\ task[1].pc = "loop"
    /\ queue = <<>>
    /\ task' = [task EXCEPT ![1].pc = "returned", ![1].ret = "None"]
    /\ UNCHANGED <<fs, fs0, tool, queue, qvars, cvars>>

\* fix_missing_schemas is run again after a run that has returned
FixAgain ==
    /\ tool = "fix"
    /\ task[1].pc = "returned"
    /\ task[1].run < MaxRuns
    /\ task' = << [Start(<<>>) EXCEPT !.run = task[1].run + 1,
                                      !.before = fs] >>
    /\ queue' = <<>>
    /\ UNCHANGED <<fs, fs0, tool, qvars, cvars>>

\* add_schema.py main, lines 58-61 and 73-75: read input_file; every
\* exception ends in the handler
AddSchemaMainRead ==
    /\ tool = "add_schema"
    /\ task[1].pc = "start"
    /\ IF ReadError(fs, input_file) # ""
       THEN task' = [task EXCEPT ![1].pc = "exited",
                                 ![1].file = input_file,
                                 ![1].ret = ExceptExit]
       ELSE task' = [task EXCEPT ![1].pc = "read",
                                 ![1].file = input_file,
                                 ![1].original_content = fs[input_file].text]
    /\ UNCHANGED <<fs, fs0, tool, queue, qvars, cvars>>

\* lines 64-68: add_bentivi_schema(content) written to output_file
AddSchemaMainWrite ==
    /\ tool = "add_schema"
    /\ task[1].pc = "read"
    /\ \E unique_tables \in UniqueTableOrders :
          LET updated_content ==
                  add_bentivi_schema(task[1].original_content, unique_tables)
          IN /\ fs' = WriteFile(fs, output_file, updated_content)
             /\ task' = [task EXCEPT ![1].pc = "returned",
                                     ![1].file = output_file,
                                     ![1].modified_content = updated_content,
                                     ![1].ret = "None"]
    /\ UNCHANGED <<fs0, tool, queue, qvars, cvars>>

\* process_sql_file, lines 107-108, in the call p: the file is read
ProcRead(p) ==
    /\ tool = "process"
    /\ task[p].pc = "start"
    /\ IF ReadError(fs, task[p].file) # ""
       THEN task' = [task EXCEPT ![p].pc = "raised",
                                 ![p].ret = ReadError(fs, task[p].file)]
       ELSE task' = [task EXCEPT
                       ![p].pc = "read",
                       ![p].original_content = fs[task[p].file].text]
    /\ UNCHANGED <<fs, fs0, tool, queue, qvars, cvars>>

\* line 111 in the call p: modified_content = add_schema_to_sql(...)
ProcRewrite(p) ==
    /\ tool = "process"
    /\ task[p].pc = "read"
    /\ task' = [task EXCEPT
                  ![p].pc = "rewritten",
                  ![p].modified_content =
                      add_schema_to_sql(task[p].original_content,
                                        <<"BENTIVI">>)]
    /\ UNCHANGED <<fs, fs0, tool, queue, qvars, cvars>>

\* lines 114-123 in the call p: the file written when the text changed
ProcWrite(p) ==
    /\ tool = "process"
    /\ task[p].pc = "rewritten"
    /\ IF task[p].modified_content # task[p].original_content
       THEN /\ fs' = WriteFile(fs, task[p].file, task[p].modified_content)
            /\ task' = [task EXCEPT ![p].pc = "returned",
                                    ![p].ret = "True"]
       ELSE /\ task' = [task EXCEPT ![p].pc = "returned",
                                    ![p].ret = "False"]
            /\ UNCHANGED fs
    /\ UNCHANGED <<fs0, tool, queue, qvars, cvars>>

NextFiles ==
    \/ MainStart
    \/ MainBackup
    \/ MainProcess
    \/ MainReturn
    \/ MainAgain
    \/ FixStart
    \/ FixRead
    \/ FixBackup
    \/ FixWrite
    \/ FixReturn
    \/ FixAgain
    \/ AddSchemaMainRead
    \/ AddSchemaMainWrite
    \/ \E p \in DOMAIN task : ProcRead(p) \/ ProcRewrite(p) \/ ProcWrite(p)

SpecFiles == InitFiles /\ [][NextFiles]_vars

----------------------------------------------------------------------------
(* C12 *)

\* the step writes other content to the existing file path
Rewrites(path) == path \in DOMAIN fs /\ fs'[path] # fs[path]

\* C12: in each rewriting script, in the step that writes the rewritten
\* content, the original content of the file exists at another path: main
\* of add_schema_bentivi.py has it in the backup directory, written by
\* backup_sql_files before the first call of process_sql_file;
\* fix_missing_schemas has it in the .bak_ file; main of add_schema.py
\* writes to an output path that is not the input path, and the input file
\* still holds the content read.
C12_OriginalKeptAtWrite ==
    [][ /\ tool = "main" =>
            \A path \in Glob(fs) :
                Rewrites(path) =>
                    LET backup == BackupPath(path, task[1].timestamp) IN
                    /\ backup # path
                    /\ backup \in DOMAIN fs'
                    /\ fs'[backup] = fs[path]
                    /\ fs[path] = task[1].before[path]
        /\ tool = "fix" =>
            \A path \in Glob(fs) :
                Rewrites(path) =>
                    /\ BakPath(path) # path
                    /\ BakPath(path) \in DOMAIN fs'
                    /\ fs'[BakPath(path)] = fs[path]
                    /\ fs[path] = task[1].before[path]
        /\ (tool = "add_schema" /\ fs' # fs) =>
            /\ DOMAIN fs' = DOMAIN fs \cup {output_file}
            /\ \A path \in DOMAIN fs : path # output_file =>
                                            fs'[path] = fs[path]
            /\ output_file # input_file
            /\ input_file \in DOMAIN fs'
            /\ fs'[input_file] = Written(task[1].original_content)
            /\ fs'[input_file] = fs0[input_file]
      ]_vars

\* main of add_schema_bentivi.py has rewritten every file and the backup
\* directory holds what the files held
C12_Witness ==
    /\ tool = "main"
    /\ task[1].pc = "returned"
    /\ task[1].run = 1
    /\ task[1].modified_files = Len(Names)
    /\ \A path \in Glob(fs0) :
          /\ fs[path] # fs0[path]
          /\ fs[BackupPath(path, 1)] = fs0[path]

\* fix_missing_schemas has rewritten a file
C12_FixWitness ==
    /\ tool = "fix"
    /\ task[1].pc = "returned"
    /\ task[1].modified_files > 0

\* main of add_schema.py has written a text that differs from its input
C12_AddSchemaWitness ==
    /\ tool = "add_schema"
    /\ task[1].pc = "returned"
    /\ fs[output_file] # fs[input_file]

----------------------------------------------------------------------------
(* C13 *)

\* the file system holds at path what it held at the start
Untouched(path) ==
    /\ path \in DOMAIN fs <=> path \in DOMAIN fs0
    /\ path \in DOMAIN fs => fs[path] = fs0[path]

\* C13: when the SQL file cannot be read (it does not exist or is no
\* UTF-8), process_sql_file raises the exception to its caller, and main of
\* add_schema.py exits with status 1; in both cases nothing is written for
\* that file.
C13_ReadFailureWritesNothing ==
    /\ tool = "process" =>
          \A p \in DOMAIN task :
              (ReadError(fs0, task[p].file) # "" /\ task[p].pc # "start") =>
                  /\ task[p].pc = "raised"
                  /\ task[p].ret = ReadError(fs0, task[p].file)
                  /\ Untouched(task[p].file)
    /\ (/\ tool = "add_schema"
        /\ ReadError(fs0, input_file) # ""
        /\ task[1].pc # "start") =>
              /\ task[1].pc = "exited"
              /\ task[1].ret = "exit 1"
              /\ Untouched(input_file)
              /\ Untouched(output_file)
              /\ fs = fs0

\* main of add_schema.py has found input_file unreadable while output_file
\* exists
C13_Witness ==
    /\ tool = "add_schema"
    /\ ReadError(fs0, input_file) = "UnicodeDecodeError"
    /\ output_file \in DOMAIN fs0
    /\ task[1].pc = "exited"

\* a call of process_sql_file has raised on a missing file while another
\* call has rewritten its own
C13_ProcessWitness ==
    /\ tool = "process"
    /\ \E p, q \in DOMAIN task :
          /\ task[p].pc = "raised"
          /\ task[p].ret = "FileNotFoundError"
          /\ task[q].ret = "True"

----------------------------------------------------------------------------
(* C15 *)

\* every call of process_sql_file has returned or raised
AllCallsOver ==
    \A p \in DOMAIN task : task[p].pc \in {"returned", "raised"}

RECURSIVE Sequential(_, _, _, _)
\* the calls of process_sql_file made one after the other in the given
\* order, from its k-th call on: <<file system, value of every call>>
Sequential(f, rets, order, k) ==
    IF k > Len(order) THEN <<f, rets>>
    ELSE LET r == process_sql_file(f, CallFile(order[k]))
         IN Sequential(r[1], [rets EXCEPT ![order[k]] = r[2]], order, k + 1)

\* C15: when process_sql_file is called concurrently on distinct files,
\* every interleaving of the calls' steps (read, add_schema_to_sql, write
\* when the text changed) ends with the content of every file and the value
\* of every call that processing the files one after the other, in any
\* order, ends with.
C15_ConcurrentAsSequential ==
    (tool = "process" /\ AllCallsOver) =>
        \A order \in Orders(DOMAIN task) :
            Sequential(fs0, [p \in DOMAIN task |-> ""], order, 1)
                = <<fs, [p \in DOMAIN task |-> task[p].ret]>>

\* every call has rewritten its file
C15_Witness ==
    /\ tool = "process"
    /\ AllCallsOver
    /\ \A p \in DOMAIN task :
          /\ task[p].ret = "True"
          /\ fs[task[p].file] # fs0[task[p].file]
    /\ \A p, q \in DOMAIN task : p # q => task[p].file # task[q].file

----------------------------------------------------------------------------
(* verify_schemas.py *)

\* the keyword phrases of the patterns of lines 16-21, in order
VerifyPatterns ==
    << <<"FROM">>, <<"JOIN">>, <<"INNER", "JOIN">>, <<"LEFT", "JOIN">> >>

\* the SQL keywords filtered at line 29
VerifyKeywords ==
    {"SELECT", "WHERE", "ORDER", "GROUP", "HAVING", "UNION", "ALL"}

\* line 29: match.upper() is one of the filtered keywords
IsVerifyKeyword(match) == Len(match) = 1 /\ Upper(match[1]) \in VerifyKeywords

\* line 30: '.' in match
HasDot(match) == \E k \in 1..Len(match) : match[k] = "."

\* line 31: match.upper().startswith('BENTIVI')
StartsWithBentivi(match) ==
    LET codes == Codes(UpperSeq(match))
        prefix == Spell["BENTIVI"]
    IN /\ Len(codes) >= Len(prefix)
       /\ SubSeq(codes, 1, Len(prefix)) = prefix

\* lines 23-32: the set the matches of every pattern are added to
TablesWithoutSchema(sql_clean) ==
    { UpperSeq(match) :
        match \in { x \in UNION { FindAll(sql_clean, 1, VerifyPatterns[k]) :
                                    k \in 1..Len(VerifyPatterns) } :
                       /\ ~IsVerifyKeyword(x)
                       /\ ~HasDot(x)
                       /\ ~StartsWithBentivi(x) } }

\* lines 9-34
extract_tables_without_schema(sql) ==
    SortedList(TablesWithoutSchema(RemoveComments(sql)))

\* how many pieces a text given to the verification holds at most
MaxVerifyPieces == 7

\* the keywords of lines 17-20 with the whitespace that follows them
VerifyClauseKeywords ==
    { <<"FROM", " ">>, <<"JOIN", "\n">>, <<"inner", " ", "JOIN", " ">>,
      <<"LEFT", "\t", "JOIN", " ">> }

\* what follows a keyword: bare names, names that start with the letters
\* of the schema name, qualified names, a filtered keyword
VerifyReferences ==
    { <<"NOTA">>, <<"nota">>, <<"BENTIVI", "X">>, <<"BENTIVI", ".", "NOTA">>,
      <<"X", ".", "NOTA">>, <<"SELECT">>, <<"1">> }

VerifyClauses ==
    { k \o r : k \in VerifyClauseKeywords, r \in VerifyReferences }

VerifySeparators == { <<" ">>, <<"\n">>, <<" ", "--", " ">> }

VerifyDocs == TextsOf(VerifyClauses, VerifySeparators, MaxVerifyPieces)

\* f and g put together; the paths of f and of g are distinct
Merged(f, g) ==
    [q \in DOMAIN f \cup DOMAIN g |-> IF q \in DOMAIN f THEN f[q] ELSE g[q]]

\* verify_schemas.py over a first file that holds one of the texts and
\* other files that exist or not
InitVerify ==
    /\ NoRewriter
    /\ NoEnviron
    /\ tool = "verify"
    /\ fs \in { Merged(f, g) :
                  f \in [{SqlPath(Names[1])} ->
                             { Written(t) : t \in VerifyDocs }],
                  g \in FileSystems({ SqlPath(Names[k]) :
                                         k \in 2..Len(Names) }) }
    /\ fs0 = fs
    /\ queue = <<>>
    /\ task = << Start(<<>>) >>

\* main, lines 66-69: the files found; modified_files stands for
\* total_issues
VerifyStart ==
    /\ tool = "verify"
    /\ task[1].pc = "start"
    /\ queue' = SortedPaths(Glob(fs), 1)
    /\ task' = [task EXCEPT ![1].pc = "loop"]
    /\ UNCHANGED <<fs, fs0, tool, qvars, cvars>>

\* lines 71-73 with verify_sql_file, lines 36-60: the file is read, its
\* tables without schema are listed and counted
VerifyFile ==
    /\ tool = "verify"
    /\ task[1].pc = "loop"
    /\ queue # <<>>
    /\ LET sql_file == Head(queue) IN
       IF ReadError(fs, sql_file) # ""
       THEN /\ task' = [task EXCEPT ![1].pc = "raised",
                                    ![1].file = sql_file,
                                    ![1].ret = ReadError(fs, sql_file)]
            /\ UNCHANGED queue
       ELSE LET content == fs[sql_file].text
                tables_without_schema ==
                    extract_tables_without_schema(content)
                issues == Len(tables_without_schema)
            IN /\ task' = [task EXCEPT
                             ![1].file = sql_file,
                             ![1].original_content = content,
                             ![1].modified_content = tables_without_schema,
                             ![1].ret = issues,
                             ![1].total_files = @ + 1,
                             ![1].modified_files = @ + issues]
               /\ queue' = Tail(queue)
    /\ UNCHANGED <<fs, fs0, tool, qvars, cvars>>

\* main that always exits with status 0
VerifyExit_AlwaysZero ==
    /\ tool = "verify"
    /\ task[1].pc = "loop"
    /\ queue = <<>>
    /\ task' = [task EXCEPT ![1].pc = "exited", ![1].ret = "exit 0"]
    /\ UNCHANGED <<fs, fs0, tool, queue, qvars, cvars>>

\* lines 85 and 89: exit(0 if result == 0 else 1)
VerifyExit ==
    /\ tool = "verify"
    /\ task[1].pc = "loop"
    /\ queue = <<>>
    /\ task' = [task EXCEPT
                  ![1].pc = "exited",
                  ![1].ret = IF task[1].modified_files = 0
                             THEN "exit 0" ELSE "exit 1"]
    /\ UNCHANGED <<fs, fs0, tool, queue, qvars, cvars>>

NextVerify == VerifyStart \/ VerifyFile \/ VerifyExit

SpecVerify == InitVerify /\ [][NextVerify]_vars

----------------------------------------------------------------------------
(* C14 *)

\* the upper-cased identifiers that follow FROM, JOIN, INNER JOIN or LEFT
\* JOIN in t, are no schema prefix of another name and no filtered keyword
BareTables(t) ==
    { UpperSeq(SubSeq(t, m[1], m[2] - 1)) :
        m \in { x \in { IdentMatch(t, i, VerifyPatterns[k]) :
                          i \in 1..Len(t), k \in 1..Len(VerifyPatterns) } :
                   /\ x[1] # 0
                   /\ ~(x[2] <= Len(t) /\ t[x[2]] = ".")
                   /\ ~IsVerifyKeyword(SubSeq(t, x[1], x[2] - 1)) } }

\* C14: verify_sql_file has listed exactly the tables without schema: the
\* upper-cased T is listed if and only if, outside comments, the text holds
\* FROM, JOIN, INNER JOIN or LEFT JOIN followed by the identifier T with no
\* schema prefix and T is no filtered keyword; the value returned is the
\* size of that set.
C14_FindsTablesWithoutSchema ==
    (tool = "verify" /\ task[1].pc = "loop" /\ task[1].file # <<>>) =>
        LET listed == task[1].modified_content
            content == task[1].original_content
        IN /\ { listed[k] : k \in 1..Len(listed) }
                  = BareTables(RemoveComments(content))
           /\ task[1].ret = Cardinality(BareTables(RemoveComments(content)))

----------------------------------------------------------------------------
(* config.py *)

\* how many characters the value of a port variable holds at most
MaxPortLen == 2

\* the characters of a port value: digits, a blank, a character that is
\* neither
PortChars == {"1", "5", " ", "x"}

\* an environment variable that is not set
Unset == [set |-> FALSE, value |-> <<>>]

\* an environment variable set to the value v
SetTo(v) == [set |-> TRUE, value |-> v]

\* a variable of a required field: not set, empty, or a value
RequiredValues == {Unset, SetTo(<<>>), SetTo(<<"v">>)}

\* a variable with a default: not set, or a value
OptionalValues == {Unset, SetTo(<<"w">>)}

\* a port variable: not set, or any string of the characters
PortValues == {Unset} \cup { SetTo(v) : v \in SeqsUpTo(PortChars, MaxPortLen) }

\* os.getenv(name, default) in the environment env
Getenv(env, name, default) ==
    IF env[name].set THEN env[name].value ELSE default

\* not config.get(field) for a field read with os.getenv(name): the
\* variable is not set (None) or empty
Falsy(env, name) == ~env[name].set \/ env[name].value = <<>>

RECURSIVE Strip(_)
\* the string without its leading and trailing blanks, as int() reads it
Strip(v) ==
    IF v = <<>> THEN v
    ELSE IF Head(v) = " " THEN Strip(Tail(v))
    ELSE IF v[Len(v)] = " " THEN Strip(SubSeq(v, 1, Len(v) - 1))
    ELSE v

\* the value of a decimal digit
Digit(c) == IF c = "1" THEN 1 ELSE IF c = "5" THEN 5
            ELSE IF c = "2" THEN 2 ELSE IF c = "3" THEN 3
            ELSE IF c = "4" THEN 4 ELSE 0

RECURSIVE Decimal(_)
\* the number a string of digits writes
Decimal(v) ==
    IF v = <<>> THEN 0
    ELSE Decimal(SubSeq(v, 1, Len(v) - 1)) * 10 + Digit(v[Len(v)])

\* int(v) raises ValueError: v without the blanks around it is empty or
\* holds a character that is no digit
IntRaises(v) ==
    \/ Strip(v) = <<>>
    \/ \E k \in 1..Len(Strip(v)) : Strip(v)[k] \notin {"1", "2", "3", "4", "5"}

\* int(v) when it does not raise
IntOf(v) == Decimal(Strip(v))

\* the result of a call: the exception raised, or the dictionary returned
Raised(exception) == [pc |-> "raised", raised |-> exception, value |-> <<>>]

ReturnedConfig(value) == [pc |-> "returned", raised |-> "", value |-> value]

\* lines 47-69
get_oracle_config(env) ==
    IF IntRaises(Getenv(env, "ORACLE_PORT", <<"1", "5", "2", "1">>))
    THEN Raised("ValueError")
    ELSE IF \E name \in {"ORACLE_HOST", "ORACLE_USER", "ORACLE_PASSWORD"} :
                Falsy(env, name)
    THEN Raised("ValueError")
    ELSE ReturnedConfig(
           [host |-> env["ORACLE_HOST"].value,
            port |-> IntOf(Getenv(env, "ORACLE_PORT", <<"1", "5", "2", "1">>)),
            service_name |-> Getenv(env, "ORACLE_SERVICE_NAME", <<"ORCL">>),
            user |-> env["ORACLE_USER"].value,
            password |-> env["ORACLE_PASSWORD"].value,
            encoding |-> <<"UTF-8">>])

\* lines 95-117
get_postgresql_config(env) ==
    IF IntRaises(Getenv(env, "POSTGRES_PORT", <<"5", "4", "3", "2">>))
    THEN Raised("ValueError")
    ELSE IF \E name \in {"POSTGRES_USER", "POSTGRES_PASSWORD"} :
                Falsy(env, name)
    THEN Raised("ValueError")
    ELSE ReturnedConfig(
           [host |-> Getenv(env, "POSTGRES_HOST", <<"localhost">>),
            port |-> IntOf(Getenv(env, "POSTGRES_PORT", <<"5", "4", "3", "2">>)),
            database |-> Getenv(env, "POSTGRES_DATABASE", <<"postgres">>),
            user |-> env["POSTGRES_USER"].value,
            password |-> env["POSTGRES_PASSWORD"].value,
            schema |-> <<"public">>])

\* the environments in which get_oracle_config is called
OracleEnvirons ==
    [ORACLE_HOST : RequiredValues, ORACLE_PORT : PortValues,
     ORACLE_SERVICE_NAME : OptionalValues, ORACLE_USER : RequiredValues,
     ORACLE_PASSWORD : RequiredValues]

\* the environments in which get_postgresql_config is called
PostgresqlEnvirons ==
    [POSTGRES_HOST : OptionalValues, POSTGRES_PORT : PortValues,
     POSTGRES_DATABASE : OptionalValues, POSTGRES_USER : RequiredValues,
     POSTGRES_PASSWORD : RequiredValues]

InitConfig ==
    /\ NoRewriter
    /\ fs = <<>>
    /\ fs0 = <<>>
    /\ queue = <<>>
    /\ task = <<>>
    /\ tool \in {"get_oracle_config", "get_postgresql_config"}
    /\ environ \in IF tool = "get_oracle_config"
                   THEN OracleEnvirons ELSE PostgresqlEnvirons
    /\ config = [pc |-> "call", raised |-> "", value |-> <<>>]

GetOracleConfig ==
    /\ tool = "get_oracle_config"
    /\ config.pc = "call"
    /\ config' = get_oracle_config(environ)
    /\ UNCHANGED <<environ, qvars, fvars>>

GetPostgresqlConfig ==
    /\ tool = "get_postgresql_config"
    /\ config.pc = "call"
    /\ config' = get_postgresql_config(environ)
    /\ UNCHANGED <<environ, qvars, fvars>>

NextConfig == GetOracleConfig \/ GetPostgresqlConfig

SpecConfig == InitConfig /\ [][NextConfig]_vars

----------------------------------------------------------------------------
(* C19 *)

\* the variables of the required fields of the function called
RequiredNames ==
    IF tool = "get_oracle_config"
    THEN {"ORACLE_HOST", "ORACLE_USER", "ORACLE_PASSWORD"}
    ELSE {"POSTGRES_USER", "POSTGRES_PASSWORD"}

\* a required field is unset or empty
RequiredMissing == \E name \in RequiredNames : Falsy(environ, name)

\* C19: get_oracle_config raises ValueError exactly when one of
\* ORACLE_HOST, ORACLE_USER, ORACLE_PASSWORD is unset or empty and otherwise
\* returns the configuration, with the fields read from the environment;
\* get_postgresql_config does the same for POSTGRES_USER and
\* POSTGRES_PASSWORD.
C19_RaisesExactlyWhenMissing ==
    (tool \in {"get_oracle_config", "get_postgresql_config"}
       /\ config.pc # "call") =>
        /\ (config.pc = "raised" /\ config.raised = "ValueError")
              <=> RequiredMissing
        /\ ~RequiredMissing =>
              /\ config.pc = "returned"
              /\ \A name \in RequiredNames : environ[name].value # <<>>
              /\ config.value.user =
                     environ[IF tool = "get_oracle_config"
                             THEN "ORACLE_USER" ELSE "POSTGRES_USER"].value
              /\ config.value.password =
                     environ[IF tool = "get_oracle_config"
                             THEN "ORACLE_PASSWORD"
                             ELSE "POSTGRES_PASSWORD"].value

----------------------------------------------------------------------------
(* C21 *)

\* C21: when fix_missing_schemas is run again on the directory after a run
\* that has returned, the second run changes no file content and creates
\* no backup file: at every point of the second run the file system is the
\* one the first run left, no fix pattern matches in any file, and the run
\* returns.
C21_SecondFixRunChangesNothing ==
    (tool = "fix" /\ task[1].run > 1) =>
        /\ fs = task[1].before
        /\ task[1].pc \in {"start", "loop", "returned"}
        /\ task[1].modified_files = 0
        /\ \A path \in Glob(fs) :
              FixedContent(fs[path].text) = fs[path].text

\* the second run has returned, the first has rewritten every file and
\* made its backup
C21_Witness ==
    /\ tool = "fix"
    /\ task[1].run = 2
    /\ task[1].pc = "returned"
    /\ Glob(fs) = { SqlPath(Names[k]) : k \in 1..Len(Names) }
    /\ \A path \in Glob(fs) :
          /\ fs[path] # fs0[path]
          /\ fs[BakPath(path)] = fs0[path]

----------------------------------------------------------------------------
(* C22 *)

\* the text add_schema_to_sql makes of the readable file at path differs
\* from the text of the file
RewritingChanges(path) ==
    add_schema_to_sql(fs[path].text, <<"BENTIVI">>) # fs[path].text

\* main has returned 0 with every SQL file processed once, in sorted
\* order, and with counters that add up
CountersAddUp ==
    (tool = "main" /\ task[1].pc = "returned" /\ task[1].ret = "0") =>
        LET processed == task[1].processed
            sql_files == Glob(task[1].before)
            unchanged == { path \in sql_files :
                             fs[path] = task[1].before[path] }
        IN /\ { processed[i] : i \in 1..Len(processed) } = sql_files
           /\ Len(processed) = Cardinality(sql_files)
           /\ \A i, j \in 1..Len(processed) :
                 \A a, b \in 1..Len(Names) :
                     (/\ i < j
                      /\ processed[i] = SqlPath(Names[a])
                      /\ processed[j] = SqlPath(Names[b])) => a < b
           /\ task[1].total_files = Cardinality(sql_files)
           /\ task[1].modified_files + Cardinality(unchanged)
                 = task[1].total_files

\* C22: process_sql_file writes the file if and only if the rewritten
\* content differs from the content it read, and returns True exactly when
\* it wrote; main of add_schema_bentivi.py processes every *.sql file
\* exactly once in sorted order, and modified_files + unchanged files =
\* total_files = number of *.sql files.
C22_WritesIffChanged ==
    [][ /\ \A p \in DOMAIN task :
              (tool = "process" /\ task'[p].pc # task[p].pc) =>
                  LET path == task[p].file IN
                  IF task[p].pc = "rewritten"
                  THEN /\ (fs' # fs) <=> RewritingChanges(path)
                       /\ (task'[p].ret = "True") <=> (fs' # fs)
                       /\ (task'[p].ret = "False") <=> (fs' = fs)
                       /\ fs' # fs =>
                             fs' = WriteFile(fs, path,
                                       add_schema_to_sql(fs[path].text,
                                                         <<"BENTIVI">>))
                  ELSE fs' = fs
        /\ (tool = "main" /\ task[1].pc = "loop" /\ queue # <<>>) =>
              LET path == Head(queue) IN
              IF ReadError(fs, path) # "" THEN fs' = fs
              ELSE /\ (fs' # fs) <=> RewritingChanges(path)
                   /\ (task'[1].modified_files = task[1].modified_files + 1)
                         <=> (fs' # fs)
                   /\ task'[1].modified_files \in
                         {task[1].modified_files,
                          task[1].modified_files + 1}
        /\ CountersAddUp'
      ]_vars

\* main has returned 0 after it rewrote one file and left another as it was
C22_Witness ==
    /\ tool = "main"
    /\ task[1].pc = "returned"
    /\ task[1].ret = "0"
    /\ task[1].total_files = 2
    /\ task[1].modified_files = 1

----------------------------------------------------------------------------
(* C23 *)

\* the run of main started without the directory sqls or without an SQL
\* file in it
NothingToProcess ==
    SqlDir \notin DOMAIN task[1].before \/ Glob(task[1].before) = {}

\* C23: main of add_schema_bentivi.py returns 1 without creating a backup
\* directory and without reading or writing any file when the directory
\* sqls does not exist or holds no *.sql file; every other run that
\* completes returns 0, also when no file was modified.
C23_ReturnsOneWithoutFiles ==
    /\ (tool = "main" /\ task[1].pc = "returned") =>
          IF NothingToProcess
          THEN /\ task[1].ret = "1"
               /\ fs = task[1].before
               /\ task[1].processed = <<>>
               /\ task[1].total_files = 0
          ELSE task[1].ret = "0"
    /\ (tool = "main" /\ NothingToProcess) =>
          /\ task[1].pc \in {"start", "returned"}
          /\ fs = task[1].before

\* main has returned 1 on a directory that exists and holds no SQL file
C23_Witness ==
    /\ tool = "main"
    /\ task[1].pc = "returned"
    /\ task[1].ret = "1"
    /\ SqlDir \in DOMAIN fs
    /\ BackupDir \notin DOMAIN fs

\* main has returned 0 with no file modified
C23_UnmodifiedWitness ==
    /\ tool = "main"
    /\ task[1].pc = "returned"
    /\ task[1].ret = "0"
    /\ task[1].modified_files = 0

----------------------------------------------------------------------------
(* C28 *)

\* the first run of main has made its backup
FirstBackupMade ==
    /\ tool = "main"
    /\ Glob(fs0) # {}
    /\ task[1].run > 1 \/ task[1].pc \in {"loop", "returned", "raised"}

\* C28: backups are never overwritten: across any sequence of runs of main
\* of add_schema_bentivi.py on the directory, two runs within the same
\* clock second included, the backup directory the first run created
\* holds, for every file, the content the file had before the first run.
C28_BackupsNeverOverwritten ==
    FirstBackupMade =>
        \A path \in Glob(fs0) :
            /\ BackupPath(path, 1) \in DOMAIN fs
            /\ fs[BackupPath(path, 1)] = fs0[path]

----------------------------------------------------------------------------
(* C25 *)

\* the tables without schema of the file at path, as a set
Reported(path) ==
    LET listed == extract_tables_without_schema(fs[path].text)
    IN { listed[k] : k \in 1..Len(listed) }

RECURSIVE SumReported(_)
\* the sum over the files of S of the number of distinct tables reported
SumReported(S) ==
    IF S = {} THEN 0
    ELSE LET q == CHOOSE x \in S : TRUE
         IN Cardinality(Reported(q)) + SumReported(S \ {q})

\* C25: main of verify_schemas.py returns the sum over all *.sql files of
\* the number of distinct tables verify_sql_file reports, and the process
\* exits with status 0 if and only if that sum is 0.
C25_ExitZeroIffNoIssue ==
    (tool = "verify" /\ task[1].pc = "exited") =>
        /\ task[1].total_files = Cardinality(Glob(fs))
        /\ task[1].modified_files = SumReported(Glob(fs))
        /\ task[1].ret \in {"exit 0", "exit 1"}
        /\ (task[1].ret = "exit 0") <=> (SumReported(Glob(fs)) = 0)
        /\ (task[1].ret = "exit 0") <=>
              \A path \in Glob(fs) : Reported(path) = {}

\* main has exited with status 1 after two files with reported tables
C25_Witness ==
    /\ tool = "verify"
    /\ task[1].pc = "exited"
    /\ task[1].ret = "exit 1"
    /\ Cardinality(Glob(fs)) = 2
    /\ \A path \in Glob(fs) : Reported(path) # {}
    /\ task[1].modified_files > 2

\* main has exited with status 0 after two files without reported table
C25_ZeroWitness ==
    /\ tool = "verify"
    /\ task[1].pc = "exited"
    /\ task[1].ret = "exit 0"
    /\ Cardinality(Glob(fs)) = 2

----------------------------------------------------------------------------
(* C26 *)

\* C26: add_bentivi_schema is a function of its argument: the text a call
\* has returned is the text the call returns in every order in which
\* set(tables) can list the names that differ only in letter case and tie
\* in the sort by length.
C26_AddBentiviDeterministic ==
    (Returned /\ tool = "none" /\ schema_name = <<"BENTIVI">>) =>
        \A unique_tables \in UniqueTableOrders :
            add_bentivi_schema(sql_content, unique_tables) = modified_sql

----------------------------------------------------------------------------
(* C27 *)

\* every table reference of t follows FROM, JOIN, INNER JOIN or LEFT JOIN:
\* t holds none of the other clause keywords
OnlyVerifiedClauses(t) ==
    \A i \in 1..Len(t) :
        Upper(t[i]) \notin {"RIGHT", "UPDATE", "INSERT", "INTO", "DELETE"}

\* C27: the rewriter and the verifier agree: for every text whose table
\* references follow FROM, JOIN, INNER JOIN or LEFT JOIN,
\* extract_tables_without_schema finds nothing in the text
\* add_schema_to_sql(s, 'BENTIVI') returns, so verify_sql_file reports zero
\* issues on a file process_sql_file has just processed.
C27_RewriterAndVerifierAgree ==
    (/\ Returned
     /\ tool = "none"
     /\ calls = 1
     /\ schema_name = <<"BENTIVI">>
     /\ OnlyVerifiedClauses(sql_content)) =>
        extract_tables_without_schema(modified_sql) = <<>>

----------------------------------------------------------------------------
(* verify_oracle_objects.py *)

\* lines 95-103
main_tables ==
    {"PEDIDO", "IPEDIDO", "TRANSAC", "NOTA", "NFENTRA", "CABREC", "RECEBER"}

\* the databases: ALL_OBJECTS holds QTDE_ENTR_PED_VEN or not, ALL_TABLES
\* holds some of the tables
Databases == [function : BOOLEAN, tables : SUBSET main_tables]

\* the locals of main before its first statement; the two error fields
\* record that the handler of lines 85-87 or 144-146 has printed
OracleStart ==
    [pc |-> "start", issues |-> 0, function_exists |-> FALSE,
     missing_tables_count |-> 0, function_error |-> FALSE,
     tables_error |-> FALSE, ret |-> ""]

InitOracle ==
    /\ NoRewriter
    /\ fs = <<>>
    /\ fs0 = <<>>
    /\ queue = <<>>
    /\ tool = "verify_oracle_objects"
    /\ environ \in Databases
    /\ config = "none"
    /\ task = << OracleStart >>

\* main, lines 201-203, with verify_specific_function, lines 36-87: the
\* connection or a query may raise, and the handler returns False
OracleVerifyFunction ==
    /\ tool = "verify_oracle_objects"
    /\ task[1].pc = "start"
    /\ \E error \in BOOLEAN :
          LET function_exists == IF error THEN FALSE ELSE environ.function
          IN task' = [task EXCEPT
                        ![1].pc = "tables",
                        ![1].function_exists = function_exists,
                        ![1].function_error = error,
                        ![1].issues = IF ~function_exists THEN @ + 1 ELSE @]
    /\ UNCHANGED <<fs, fs0, tool, queue, qvars, cvars>>

\* main, lines 206-208, with verify_sample_tables, lines 89-146: the
\* number of tables not found, or -1 from the handler
OracleVerifyTables ==
    /\ tool = "verify_oracle_objects"
    /\ task[1].pc = "tables"
    /\ \E error \in BOOLEAN :
          LET missing_tables_count ==
                  IF error THEN -1
                  ELSE Cardinality(main_tables \ environ.tables)
          IN task' = [task EXCEPT
                        ![1].pc = "permissions",
                        ![1].missing_tables_count = missing_tables_count,
                        ![1].tables_error = error,
                        ![1].issues = IF missing_tables_count > 0
                                      THEN @ + missing_tables_count ELSE @]
    /\ UNCHANGED <<fs, fs0, tool, queue, qvars, cvars>>

\* main, line 211, with check_user_permissions, lines 148-190: it returns
\* nothing and its handler swallows every exception
OracleCheckPermissions ==
    /\ tool = "verify_oracle_objects"
    /\ task[1].pc = "permissions"
    /\ task' = [task EXCEPT ![1].pc = "report"]
    /\ UNCHANGED <<fs, fs0, tool, queue, qvars, cvars>>

\* lines 218-237: return issues; sys.exit(0 if result == 0 else 1)
OracleExit ==
    /\ tool = "verify_oracle_objects"
    /\ task[1].pc = "report"
    /\ task' = [task EXCEPT
                  ![1].pc = "exited",
                  ![1].ret = IF task[1].issues = 0
                             THEN "exit 0" ELSE "exit 1"]
    /\ UNCHANGED <<fs, fs0, tool, queue, qvars, cvars>>

NextOracle ==
    \/ OracleVerifyFunction
    \/ OracleVerifyTables
    \/ OracleCheckPermissions
    \/ OracleExit

SpecOracle == InitOracle /\ [][NextOracle]_vars

----------------------------------------------------------------------------
(* C29 *)

\* C29: main of verify_oracle_objects.py returns 0 (exit status 0) only if
\* the function check and the table check both completed without error
\* and found nothing missing; a check that ends in its exception handler
\* (verify_specific_function returning False, verify_sample_tables
\* returning -1) always makes the result non-zero.
C29_ZeroOnlyIfBothChecksPassed ==
    (tool = "verify_oracle_objects" /\ task[1].pc = "exited") =>
        /\ (task[1].issues = 0 \/ task[1].ret = "exit 0") =>
              /\ ~task[1].function_error
              /\ ~task[1].tables_error
              /\ environ.function
              /\ main_tables \subseteq environ.tables
        /\ (task[1].function_error \/ task[1].tables_error) =>
              /\ task[1].issues # 0
              /\ task[1].ret = "exit 1"

----------------------------------------------------------------------------
(* config.py: loading the module *)

\* line 37, with SQL_SCRIPTS_PATH not set
SQL_SCRIPTS_DIR == <<"/opt/etl_geodata/sql_scripts">>

\* the values of ENV
EnvValues ==
    {Unset, SetTo(<<>>), SetTo(<<"development">>), SetTo(<<"production">>)}

\* the values of a port variable when the module is loaded: not set, a
\* number, not a number
LoadPortValues == {Unset, SetTo(<<"1">>), SetTo(<<"x">>)}

\* the environments in which the module is loaded
LoadEnvirons ==
    [ENV : EnvValues,
     ORACLE_HOST : RequiredValues, ORACLE_PORT : LoadPortValues,
     ORACLE_SERVICE_NAME : {Unset}, ORACLE_USER : RequiredValues,
     ORACLE_PASSWORD : RequiredValues,
     POSTGRES_HOST : {Unset}, POSTGRES_PORT : LoadPortValues,
     POSTGRES_DATABASE : {Unset}, POSTGRES_USER : RequiredValues,
     POSTGRES_PASSWORD : RequiredValues]

Development_Always(env) == TRUE

\* lines 77 and 125: os.getenv('ENV', 'development') == 'development'
Development(env) ==
    Getenv(env, "ENV", <<"development">>) = <<"development">>

\* lines 80-87
OracleDefaults ==
    [host |-> <<"192.168.10.243">>, port |-> 1521,
     service_name |-> <<"ORCL">>, user |-> <<"GEODATA">>,
     password |-> <<"CONFIGURE_NO_ARQUIVO_ENV">>, encoding |-> <<"UTF-8">>]

\* lines 128-135
PostgresqlDefaults ==
    [host |-> <<"localhost">>, port |-> 5432, database |-> <<"postgres">>,
     user |-> <<"postgres">>, password |-> <<"CONFIGURE_NO_ARQUIVO_ENV">>,
     schema |-> <<"public">>]

\* the module before its line 72; a name that is not bound holds <<>>
Loading ==
    [pc |-> "oracle", raised |-> "", ORACLE_CONFIG |-> <<>>,
     POSTGRESQL_CONFIG |-> <<>>, errors |-> <<>>]

\* the import has failed with the exception: the module and its names do
\* not exist
LoadFailed(exception) ==
    [pc |-> "failed", raised |-> exception, ORACLE_CONFIG |-> <<>>,
     POSTGRESQL_CONFIG |-> <<>>, errors |-> <<>>]

InitLoad ==
    /\ NoRewriter
    /\ fs \in {<<>>, [path \in {SQL_SCRIPTS_DIR} |-> Directory]}
    /\ fs0 = fs
    /\ queue = <<>>
    /\ task = <<>>
    /\ tool = "config"
    /\ environ \in LoadEnvirons
    /\ config = Loading

\* lines 71-89
LoadOracleConfig ==
    /\ tool = "config"
    /\ config.pc = "oracle"
    /\ LET called == get_oracle_config(environ) IN
       config' =
           IF called.pc = "returned"
           THEN [config EXCEPT !.pc = "postgresql",
                               !.ORACLE_CONFIG = called.value]
           ELSE IF Development(environ)
           THEN [config EXCEPT !.pc = "postgresql",
                               !.ORACLE_CONFIG = OracleDefaults]
           ELSE LoadFailed(called.raised)
    /\ UNCHANGED <<environ, qvars, fvars>>

\* lines 119-137, and the rest of the module with its variables not set
LoadPostgresqlConfig ==
    /\ tool = "config"
    /\ config.pc = "postgresql"
    /\ LET called == get_postgresql_config(environ) IN
       config' =
           IF called.pc = "returned"
           THEN [config EXCEPT !.pc = "loaded",
                               !.POSTGRESQL_CONFIG = called.value]
           ELSE IF Development(environ)
           THEN [config EXCEPT !.pc = "loaded",
                               !.POSTGRESQL_CONFIG = PostgresqlDefaults]
           ELSE LoadFailed(called.raised)
    /\ UNCHANGED <<environ, qvars, fvars>>

\* not c.get(field): the number 0 or the empty string
FieldFalsy(c, field) ==
    IF field = "port" THEN c[field] = 0 ELSE c[field] = <<>>

\* the fields, in the order of required, that are falsy in c
RECURSIVE FieldErrors(_, _, _)
FieldErrors(c, required, label) ==
    IF required = <<>> THEN <<>>
    ELSE (IF FieldFalsy(c, Head(required))
          THEN << <<label, Head(required)>> >> ELSE <<>>)
         \o FieldErrors(c, Tail(required), label)

\* lines 269-289
validate_config(f, ORACLE_CONFIG, POSTGRESQL_CONFIG) ==
    (IF SQL_SCRIPTS_DIR \notin DOMAIN f
     THEN << <<"SQL", "SQL_SCRIPTS_DIR">> >> ELSE <<>>)
    \o FieldErrors(ORACLE_CONFIG,
                   <<"host", "port", "service_name", "user", "password">>,
                   "Oracle")
    \o FieldErrors(POSTGRESQL_CONFIG,
                   <<"host", "port", "database", "user", "password">>,
                   "PostgreSQL")

\* a call of validate_config() on the loaded module, lines 291-293
ValidateConfig ==
    /\ tool = "config"
    /\ config.pc = "loaded"
    /\ config' = [config EXCEPT
                    !.pc = "validated",
                    !.errors = validate_config(fs, config.ORACLE_CONFIG,
                                               config.POSTGRESQL_CONFIG)]
    /\ UNCHANGED <<environ, qvars, fvars>>

NextLoad ==
    \/ LoadOracleConfig
    \/ LoadPostgresqlConfig
    \/ ValidateConfig

SpecLoad == InitLoad /\ [][NextLoad]_vars

----------------------------------------------------------------------------
(* C24 *)

\* a required Oracle credential is unset or empty
OracleMissing ==
    \E name \in {"ORACLE_HOST", "ORACLE_USER", "ORACLE_PASSWORD"} :
        Falsy(environ, name)

\* a required PostgreSQL credential is unset or empty
PostgresqlMissing ==
    \E name \in {"POSTGRES_USER", "POSTGRES_PASSWORD"} :
        Falsy(environ, name)

\* ENV is not set or is 'development'
EnvDevelopment ==
    ~environ["ENV"].set \/ environ["ENV"].value = <<"development">>

\* C24: when config.py is loaded with a required credential missing and
\* ENV is unset or 'development', ORACLE_CONFIG / POSTGRESQL_CONFIG are
\* set to the placeholder defaults and loading succeeds; with any other
\* value of ENV the ValueError propagates, loading fails and neither
\* configuration is usable.
C24_DefaultsOnlyInDevelopment ==
    (tool = "config" /\ config.pc \in {"loaded", "validated", "failed"}) =>
        /\ (OracleMissing /\ EnvDevelopment) =>
              /\ config.pc # "failed"
              /\ config.ORACLE_CONFIG = OracleDefaults
        /\ (PostgresqlMissing /\ EnvDevelopment) =>
              /\ config.pc # "failed"
              /\ config.POSTGRESQL_CONFIG = PostgresqlDefaults
        /\ ((OracleMissing \/ PostgresqlMissing) /\ ~EnvDevelopment) =>
              /\ config.pc = "failed"
              /\ config.raised = "ValueError"
              /\ config.ORACLE_CONFIG = <<>>
              /\ config.POSTGRESQL_CONFIG = <<>>

\* the module is loaded with both placeholder configurations, ENV not set
C24_Witness ==
    /\ tool = "config"
    /\ config.pc = "loaded"
    /\ ~environ["ENV"].set
    /\ OracleMissing
    /\ PostgresqlMissing
    /\ config.ORACLE_CONFIG = OracleDefaults
    /\ config.POSTGRESQL_CONFIG = PostgresqlDefaults

\* loading has failed in production on a missing PostgreSQL credential,
\* after the Oracle configuration was read
C24_FailedWitness ==
    /\ tool = "config"
    /\ config.pc = "failed"
    /\ environ["ENV"].value = <<"production">>
    /\ ~OracleMissing
    /\ get_oracle_config(environ).pc = "returned"
    /\ PostgresqlMissing

----------------------------------------------------------------------------
(* C30 *)

\* C30: validate_config returns a non-empty list of errors whenever a
\* required Oracle or PostgreSQL credential is absent from the
\* environment, and returns the empty list only when all of them are
\* supplied and the SQL scripts directory exists.
C30_ValidateReportsMissingCredentials ==
    (tool = "config" /\ config.pc = "validated") =>
        /\ (OracleMissing \/ PostgresqlMissing) => config.errors # <<>>
        /\ config.errors = <<>> =>
              /\ ~OracleMissing
              /\ ~PostgresqlMissing
              /\ SQL_SCRIPTS_DIR \in DOMAIN fs
====
